---- MODULE Spec2Model ----
(***************************************************************************)
(* The kinematics core of the ATC simulator (atc-brain-python/engine):     *)
(* the StateStore over aircraft_instances and events, the SpawnListener,   *)
(* and the 1 Hz tick loop of KinematicsEngine with its threshold machine.  *)
(*                                                                         *)
(* Geometry is reduced to one dimension: an aircraft flies the inbound     *)
(* radial of the airport, position.x is its signed along-track coordinate  *)
(* in units of 1/DistScale NM and position.altitude_ft its altitude MSL in *)
(* whole feet.  A nullable column is a set: {} is NULL, {v} holds v.       *)
(* last_event_fired, a comma-joined string in the table, is the sequence   *)
(* of its comma-separated tags.                                            *)
(***************************************************************************)
EXTENDS Integers, Sequences, FiniteSets, TLC

VARIABLES
    rows,        \* aircraft_instances: id -> row
    events,      \* the events table, an append-only log
    tick_count,  \* KinematicsEngine.tick_count
    pc,          \* position of the tick loop: "sleep" or "process"
    roster,      \* aircraft_list of the tick in progress (row snapshots)
    idx,         \* index in roster of the next aircraft to process
    fired,       \* threshold decided for each roster entry processed in this tick
    spawn,       \* SpawnListener: [pc, id] ("idle", or "callback" pending for id)
    msgs,        \* aircraft.created messages delivered so far
    failures,    \* transient database failures injected so far
    restarts,    \* engine restarts so far
    fetched,     \* ids that satisfied the roster query when it last ran
    call,        \* the StateStore call under test: [op, id, updates, before, ok]
    bus,         \* publish attempts of the tick in progress: [type, id, delivered]
    duration_seconds, \* argument of run(): the loop ends after that many 1 s ticks
    query_limit, \* LIMIT of the roster query
    prng,        \* state of the process-wide generator of the random module
    kin,         \* pure functions called on their own: [input, output]
    clock,       \* whole seconds since start_time at the last duration check
    telemetry_buffer, \* KinematicsEngine.telemetry_buffer: snapshots [tick, id]
    telemetry_files,  \* what each flush wrote to its telemetry file, in order
    flush_tasks, \* flush_telemetry tasks created and not yet run
    write_errors,     \* telemetry writes that failed so far
    flush_threshold,  \* buffer length from which an append starts a flush task
    max_tick_seconds, \* the longest one tick takes on this host
    horizon,     \* the model follows the loop up to this clock value
    inbox        \* the messages listen_async has taken off the channel, in order

\* What no action of the engine or of the store changes.
setup == <<duration_seconds, query_limit, flush_threshold, max_tick_seconds, horizon>>
random == <<prng, kin>>
telemetry == <<telemetry_buffer, telemetry_files, flush_tasks, write_errors>>

vars == <<rows, events, tick_count, pc, roster, idx, fired, spawn, msgs,
          failures, restarts, fetched, call, bus, setup, random, clock, telemetry,
          inbox>>

-----------------------------------------------------------------------------
(* Bounds of the model *)

NumAircraft == 2
MaxTicks == 2
MaxMessages == 2
MaxFailures == 1
MaxRestarts == 1
MaxKeys == 3
MaxFlightTicks == 3
MaxRunSeconds == 2
MaxWriteErrors == 1
MaxSteps == 2
MaxTurnSteps == 12
AngleStep == 300
PrngPeriod == 3
DistScale == 10

\* Buffer length that starts a flush task, scaled from the source's 100 to
\* the snapshots of a run of the model.
FlushThreshold == 2

\* LIMIT of the roster query, scaled from the source's 100 to the model's
\* fleet so that more rows can qualify than the query returns.
RosterLimit == 1

Aircraft == 1..NumAircraft

-----------------------------------------------------------------------------
(* Program constants (engine/constants.py) *)

DT == 1
H_DOT_CLIMB_MAX == 2500
H_DOT_DESCENT_MAX == 3000
H_DOT_DESCENT_MAX_APPROACH == 1800
FT_PER_NM == 6076
\* GLIDESLOPE_SLOPE = tan(3 deg) ~ 0.0524, in 1/10000
GLIDESLOPE_SLOPE_E4 == 524
CYYZ_ELEVATION_FT == 569
TOUCHDOWN_ALTITUDE_FT == 50
\* Buffer length at which add_telemetry_snapshot starts a flush task.
TELEMETRY_FLUSH_SIZE == 100
\* tick() publishes the state snapshot when tick_count is a multiple of it.
SNAPSHOT_PERIOD == 10
\* Speeds are in tenths of a knot and headings in tenths of a degree.
A_ACC_MAX_E1 == 6
A_DEC_MAX_E1 == 8
DRIFT_SPEED_KT == 5
DRIFT_HEADING_DEG == 2
DEFAULT_MIN_SPEED_KTS == 140
DEFAULT_MAX_SPEED_KTS == 550
\* G * tan(PHI_MAX_RAD) / 0.514444 in degrees: the turn rate in tenths of a
\* degree per second is this over the speed in tenths of a knot.
TURN_RATE_E2 == 50930
ENTRY_ZONE_THRESHOLD_NM == 30 * DistScale
HANDOFF_READY_THRESHOLD_NM == 20 * DistScale
EVENT_ENTERED_ENTRY_ZONE == "ENTERED_ENTRY_ZONE"
EVENT_HANDOFF_READY == "HANDOFF_READY"
EVENT_TOUCHDOWN == "TOUCHDOWN"

ThresholdTags == {EVENT_ENTERED_ENTRY_ZONE, EVENT_HANDOFF_READY, EVENT_TOUCHDOWN}

-----------------------------------------------------------------------------
(* Values *)

None == {}
Some(v) == {v}
Get(o) == CHOOSE v \in o : TRUE

Abs(n) == IF n < 0 THEN -n ELSE n
Min(a, b) == IF a <= b THEN a ELSE b
Max(a, b) == IF a >= b THEN a ELSE b
clip(value, min_val, max_val) == Max(min_val, Min(max_val, value))

\* "tag in last_event" of the source: substring containment in the joined
\* string; the three tags are not substrings of one another or of a join.
Contains(s, tag) == \E i \in 1..Len(s) : s[i] = tag

CountTag(s, tag) == Cardinality({i \in 1..Len(s) : s[i] = tag})

-----------------------------------------------------------------------------
(* StateStore (engine/state_manager.py) *)

\* Columns update_aircraft_state copies into the SET list besides position.
WhitelistedColumns ==
    {"target_speed_kts", "target_heading_deg", "target_altitude_ft",
     "vertical_speed_fpm", "phase", "last_event_fired", "controller"}

IsSettable(key) == key = "position" \/ key \in WhitelistedColumns

\* Value of param_idx when the i-th item of updates is visited: it starts at 1
\* and is incremented once per item, whether the item was appended or not.
param_idx(updates, i) == i

\* The SET clauses in the order of updates, each with its $n placeholder.
RECURSIVE set_clauses(_, _)
set_clauses(updates, i) ==
    IF i > Len(updates) THEN <<>>
    ELSE (IF IsSettable(updates[i].key)
          THEN <<[column |-> updates[i].key, param |-> param_idx(updates, i)]>>
          ELSE <<>>) \o set_clauses(updates, i + 1)

\* The positional arguments: one per appended clause, then aircraft_id.
RECURSIVE set_values(_, _)
set_values(updates, i) ==
    IF i > Len(updates) THEN <<>>
    ELSE (IF IsSettable(updates[i].key) THEN <<updates[i].value>> ELSE <<>>)
         \o set_values(updates, i + 1)

\* conn.execute(query, *values): the statement is prepared and bound only if
\* its placeholders are exactly $1..$n for the n arguments passed; a skipped
\* number or a surplus placeholder raises.
QueryExecutes(clauses, where_param, values) ==
    {clauses[k].param : k \in DOMAIN clauses} \cup {where_param} = 1..Len(values)

RECURSIVE ApplyClauses(_, _, _)
ApplyClauses(row, clauses, values) ==
    IF clauses = <<>> THEN row
    ELSE ApplyClauses([row EXCEPT ![Head(clauses).column] = values[Head(clauses).param]],
                      Tail(clauses), values)

\* update_aircraft_state(aircraft_id, updates) on the row it addresses.
\* db_up is FALSE when the connection fails during the call.  Result:
\* ok is the returned bool, row the row afterwards, wrote whether an UPDATE
\* was executed (which also stamps updated_at).
update_aircraft_state(row, updates, db_up) ==
    LET clauses == set_clauses(updates, 1)
        values == set_values(updates, 1) \o <<row.id>>
        where_param == param_idx(updates, Len(updates) + 1)
    IN  IF clauses = <<>>
        THEN [ok |-> TRUE, row |-> row, wrote |-> FALSE]
        ELSE IF db_up /\ QueryExecutes(clauses, where_param, values)
             THEN [ok |-> TRUE, row |-> ApplyClauses(row, clauses, values), wrote |-> TRUE]
             ELSE [ok |-> FALSE, row |-> row, wrote |-> FALSE]

TouchdownUpdates ==
    << [key |-> "status", value |-> "landed"],
       [key |-> "controller", value |-> "GROUND"],
       [key |-> "phase", value |-> "TOUCHDOWN"] >>

mark_touchdown(row, db_up) == update_aircraft_state(row, TouchdownUpdates, db_up)

handoff_to_atc(row, new_controller, db_up) ==
    update_aircraft_state(row, <<[key |-> "controller", value |-> new_controller]>>, db_up)

\* Mutant: ORDER BY created_at ASC.
RECURSIVE OrderByCreatedAsc(_)
OrderByCreatedAsc(S) ==
    IF S = {} THEN <<>>
    ELSE LET m == CHOOSE a \in S : \A b \in S : rows[a].created_at <= rows[b].created_at
         IN  <<m>> \o OrderByCreatedAsc(S \ {m})

\* ORDER BY created_at DESC over a set of ids.
RECURSIVE OrderByCreatedDesc(_)
OrderByCreatedDesc(S) ==
    IF S = {} THEN <<>>
    ELSE LET m == CHOOSE a \in S : \A b \in S : rows[b].created_at <= rows[a].created_at
         IN  <<m>> \o OrderByCreatedDesc(S \ {m})

\* Mutant: the WHERE clause without the status test.
Selected_any_status(c) ==
    {a \in Aircraft : /\ rows[a].controller = c
                      /\ rows[a].flight_type = "ARRIVAL"}

\* The WHERE clause of get_active_arrivals.
Selected(c) ==
    {a \in Aircraft : /\ rows[a].status = "active"
                      /\ rows[a].controller = c
                      /\ rows[a].flight_type = "ARRIVAL"}

\* Mutant: the result starts at the second row (OFFSET 1).
get_active_arrivals_skip_first(c) ==
    LET ordered == OrderByCreatedDesc(Selected(c))
    IN  [i \in 1..Min(Len(ordered) - 1, query_limit) |-> rows[ordered[i + 1]]]

\* get_active_arrivals(controller): the selected rows, newest first, cut at
\* the LIMIT; each entry is a copy of the row.
get_active_arrivals(c) ==
    LET ordered == OrderByCreatedDesc(Selected(c))
    IN  [i \in 1..Min(Len(ordered), query_limit) |-> rows[ordered[i]]]

\* create_event appends one row; only type and aircraft_id matter here
\* (aircraft_id 0 stands for NULL).
EventRow(type, aircraft_id) == [type |-> type, aircraft_id |-> aircraft_id]

create_event(log, type, aircraft_id, db_up) ==
    IF db_up THEN Append(log, EventRow(type, aircraft_id)) ELSE log

EventCount(type, a) ==
    Cardinality({i \in 1..Len(events) : events[i] = EventRow(type, a)})

-----------------------------------------------------------------------------
(* Kinematics (engine/kinematics.py, engine/geo_utils.py), one-dimensional *)

distance_to_airport(position) == Abs(position.x)

altitude_msl_to_agl(altitude_msl, elevation) == altitude_msl - elevation

\* h*(D) = THR_elev + 6076 * slope * D, in whole feet.
calculate_glideslope_altitude(distance_nm) ==
    CYYZ_ELEVATION_FT
      + (FT_PER_NM * GLIDESLOPE_SLOPE_E4 * distance_nm) \div (10000 * DistScale)

\* Mutant: update_altitude with the cruise caps at every distance.
update_altitude_cruise_caps(current_altitude, target_altitude, distance, is_approach, dt) ==
    LET max_climb_ft == (H_DOT_CLIMB_MAX \div 60) * dt
        max_descent_ft == -((H_DOT_DESCENT_MAX \div 60) * dt)
        delta_altitude == clip(target_altitude - current_altitude, max_descent_ft, max_climb_ft)
    IN  [altitude |-> current_altitude + delta_altitude,
         vertical_speed_fpm |-> (delta_altitude * 60) \div dt]

\* update_altitude: the altitude error clipped to the vertical-rate caps
\* (fpm converted to whole feet per second); the vertical speed is the
\* change per second times 60, which for the steps of the model (a whole
\* number of seconds dividing 60) is a whole number of fpm.
update_altitude(current_altitude, target_altitude, distance, is_approach, dt) ==
    LET approach == is_approach \/ distance < 10 * DistScale
        max_climb_fpm == IF approach THEN H_DOT_DESCENT_MAX_APPROACH ELSE H_DOT_CLIMB_MAX
        max_descent_fpm == IF approach THEN H_DOT_DESCENT_MAX_APPROACH ELSE H_DOT_DESCENT_MAX
        max_climb_ft == (max_climb_fpm \div 60) * dt
        max_descent_ft == -((max_descent_fpm \div 60) * dt)
        delta_altitude == clip(target_altitude - current_altitude, max_descent_ft, max_climb_ft)
    IN  [altitude |-> current_altitude + delta_altitude,
         vertical_speed_fpm |-> (delta_altitude * 60) \div dt]

\* update_position along the inbound radial, heading held: ground_speed
\* units of x per second (1 is 360 kt at DistScale = 10).
update_position(position, dt) == position.x - position.ground_speed * dt

\* The altitude channel of update_aircraft_state: the altitude follows its
\* target, or the glideslope inside 30 NM when there is none, or is held.
altitude_channel(altitude, target_altitude, distance_nm, is_approach, dt) ==
    IF target_altitude # None
    THEN update_altitude(altitude, Get(target_altitude), distance_nm, is_approach, dt)
    ELSE IF distance_nm < 30 * DistScale
         THEN update_altitude(altitude, calculate_glideslope_altitude(distance_nm),
                              distance_nm, TRUE, dt)
         ELSE [altitude |-> altitude, vertical_speed_fpm |-> 0]

\* kinematics.update_aircraft_state(aircraft, dt): the distance is that of the
\* position read from the store; the altitude follows its target, or the
\* glideslope inside 30 NM when there is none, or is held.
kinematics_update_aircraft_state(aircraft, dt) ==
    LET position == aircraft.position
        altitude == position.altitude_ft
        distance_nm == distance_to_airport(position)
        is_approach == distance_nm < 20 * DistScale
        vertical == altitude_channel(altitude, aircraft.target_altitude_ft,
                                     distance_nm, is_approach, dt)
    IN  [position |-> [x |-> update_position(position, dt),
                       altitude_ft |-> vertical.altitude,
                       ground_speed |-> position.ground_speed],
         vertical_speed_fpm |-> vertical.vertical_speed_fpm,
         distance_to_airport_nm |-> distance_nm]

-----------------------------------------------------------------------------
(* Kinematics: the speed and heading channels and the random module *)

\* The generator of the random module is one process-wide state machine:
\* a draw is a function of its state and moves it on.
random_next(state) == (state + 1) % PrngPeriod

\* random.uniform(a, b) = a + (b - a) * random(), random() taking its
\* lowest, middle and highest value over the states.
random_uniform(state, a, b) == a + ((b - a) * (state % 3)) \div 2

\* The two while loops that bring a heading into [0, 360).
normalize_heading(heading) == heading % 3600

\* geo_utils.heading_difference: target - current, taken down by 360 while
\* above 180 and up by 360 while below -180.
RECURSIVE heading_difference(_, _)
heading_difference(current, target) ==
    LET diff == target - current
    IN  IF diff > 1800 THEN heading_difference(current + 3600, target)
        ELSE IF diff < -1800 THEN heading_difference(current - 3600, target)
        ELSE diff

\* Mutant: update_speed without its safety limits.
update_speed_unclamped(current_speed, target_speed, dt) ==
    current_speed + clip(target_speed - current_speed, -A_DEC_MAX_E1 * dt, A_ACC_MAX_E1 * dt)

update_speed(current_speed, target_speed, dt) ==
    LET speed_error == target_speed - current_speed
        max_accel == A_ACC_MAX_E1 * dt
        max_decel == -A_DEC_MAX_E1 * dt
        delta_speed == clip(speed_error, max_decel, max_accel)
        new_speed == current_speed + delta_speed
    IN  clip(new_speed, DEFAULT_MIN_SPEED_KTS * 10, DEFAULT_MAX_SPEED_KTS * 10)

\* Degrees per second (in tenths); 0 below 1 m/s (1.94 kt).
calculate_max_turn_rate(speed_kts) ==
    IF speed_kts < 20 THEN 0 ELSE TURN_RATE_E2 \div speed_kts

\* The heading error of update_heading, brought into [-180, +180].
RECURSIVE heading_error(_)
heading_error(error) ==
    IF error > 1800 THEN heading_error(error - 3600)
    ELSE IF error < -1800 THEN heading_error(error + 3600)
    ELSE error

\* Mutant: the heading error taken as target - current, not brought into
\* [-180, +180].
update_heading_long_way(current_heading, target_heading, speed_kts, dt) ==
    LET max_heading_change == calculate_max_turn_rate(speed_kts) * dt
        delta_heading == clip(target_heading - current_heading,
                              -max_heading_change, max_heading_change)
    IN  normalize_heading(current_heading + delta_heading)

\* Mutant: the heading error applied without the turn-rate limit.
update_heading_unlimited(current_heading, target_heading, speed_kts, dt) ==
    normalize_heading(current_heading + heading_error(target_heading - current_heading))

update_heading(current_heading, target_heading, speed_kts, dt) ==
    LET max_heading_change == calculate_max_turn_rate(speed_kts) * dt
        delta_heading == clip(heading_error(target_heading - current_heading),
                              -max_heading_change, max_heading_change)
    IN  normalize_heading(current_heading + delta_heading)

apply_random_drift(current_value, drift_amount, is_circular, state) ==
    LET new_value == current_value + random_uniform(state, -drift_amount, drift_amount)
    IN  IF is_circular THEN normalize_heading(new_value) ELSE new_value

\* The speed and heading channels of update_aircraft_state, with the state
\* of the generator before and after: a channel without a target draws once.
update_speed_heading(position, target_speed, target_heading, state, dt) ==
    LET after_speed == IF target_speed # None THEN state ELSE random_next(state)
        new_speed ==
            IF target_speed # None
            THEN update_speed(position.speed_kts, Get(target_speed), dt)
            ELSE clip(apply_random_drift(position.speed_kts, DRIFT_SPEED_KT * 10, FALSE, state),
                      DEFAULT_MIN_SPEED_KTS * 10, DEFAULT_MAX_SPEED_KTS * 10)
        new_heading ==
            IF target_heading # None
            THEN update_heading(position.heading, Get(target_heading), position.speed_kts, dt)
            ELSE apply_random_drift(position.heading, DRIFT_HEADING_DEG * 10, TRUE, after_speed)
    IN  [speed_kts |-> new_speed,
         heading |-> new_heading,
         state |-> IF target_heading # None THEN after_speed ELSE random_next(after_speed)]

-----------------------------------------------------------------------------
(* Engine (engine/core_engine.py) *)

\* Mutant: the distance bands closed at their upper ends.
determine_phase_inclusive(distance_nm, altitude_agl) ==
    IF altitude_agl < 500 THEN "FINAL"
    ELSE IF distance_nm <= 10 * DistScale THEN "APPROACH"
    ELSE IF distance_nm <= 30 * DistScale THEN "DESCENT"
    ELSE "CRUISE"

determine_phase(distance_nm, altitude_agl) ==
    IF altitude_agl < 500 THEN "FINAL"
    ELSE IF distance_nm < 10 * DistScale THEN "APPROACH"
    ELSE IF distance_nm < 30 * DistScale THEN "DESCENT"
    ELSE "CRUISE"

\* The conditions of the if / elif chain of process_aircraft.
TouchdownCondition(altitude_agl) == altitude_agl < TOUCHDOWN_ALTITUDE_FT
HandoffCondition(distance_nm) == distance_nm <= HANDOFF_READY_THRESHOLD_NM
EntryCondition(distance_nm) == distance_nm <= ENTRY_ZONE_THRESHOLD_NM

\* "TAG not in last_event" raises TypeError when the column is NULL
\* (aircraft.get returns None); by short-circuit evaluation it is reached as
\* soon as one of the three conditions holds.
ThresholdCheckRaises(last_event, distance_nm, altitude_agl) ==
    /\ last_event = None
    /\ \/ TouchdownCondition(altitude_agl)
       \/ HandoffCondition(distance_nm)
       \/ EntryCondition(distance_nm)

\* Mutant: the HANDOFF_READY branch tested before the TOUCHDOWN branch.
new_event_handoff_first(last_event, distance_nm, altitude_agl) ==
    IF HandoffCondition(distance_nm) /\ ~Contains(last_event, EVENT_HANDOFF_READY)
    THEN EVENT_HANDOFF_READY
    ELSE IF TouchdownCondition(altitude_agl) /\ ~Contains(last_event, EVENT_TOUCHDOWN)
    THEN EVENT_TOUCHDOWN
    ELSE IF EntryCondition(distance_nm) /\ ~Contains(last_event, EVENT_ENTERED_ENTRY_ZONE)
    THEN EVENT_ENTERED_ENTRY_ZONE
    ELSE ""

\* new_event of process_aircraft for a non-NULL last_event: the first branch
\* of the chain whose condition holds and whose tag is not yet in
\* last_event; "" when no branch is taken.
new_event(last_event, distance_nm, altitude_agl) ==
    IF TouchdownCondition(altitude_agl) /\ ~Contains(last_event, EVENT_TOUCHDOWN)
    THEN EVENT_TOUCHDOWN
    ELSE IF HandoffCondition(distance_nm) /\ ~Contains(last_event, EVENT_HANDOFF_READY)
    THEN EVENT_HANDOFF_READY
    ELSE IF EntryCondition(distance_nm) /\ ~Contains(last_event, EVENT_ENTERED_ENTRY_ZONE)
    THEN EVENT_ENTERED_ENTRY_ZONE
    ELSE ""

\* Mutant: last_event_fired overwritten with the new tag alone.
JoinEvent_overwrite(last_event, tag) == <<tag>>

\* f"{last_event},{new_event}", or new_event alone when last_event is empty.
JoinEvent(last_event, tag) == Append(last_event, tag)

EventTypeOf(tag) ==
    IF tag = EVENT_TOUCHDOWN THEN "aircraft.touchdown"
    ELSE IF tag = EVENT_HANDOFF_READY THEN "aircraft.handoff_ready"
    ELSE "aircraft.entered_entry_zone"

\* Mutant: the controller read at the roster fetch is written back.
EngineUpdates_with_controller(position, vertical_speed_fpm, phase, last_event, tag) ==
    << [key |-> "position", value |-> position],
       [key |-> "vertical_speed_fpm", value |-> vertical_speed_fpm],
       [key |-> "phase", value |-> phase],
       [key |-> "controller", value |-> "ENGINE"] >>

\* The updates dictionary process_aircraft persists for a non-touchdown tick.
EngineUpdates(position, vertical_speed_fpm, phase, last_event, tag) ==
    << [key |-> "position", value |-> position],
       [key |-> "vertical_speed_fpm", value |-> vertical_speed_fpm],
       [key |-> "phase", value |-> phase] >>
    \o (IF tag # ""
        THEN <<[key |-> "last_event_fired", value |-> Some(JoinEvent(last_event, tag))]>>
        ELSE <<>>)

\* Mutant: a failed publish raises instead of returning False.
publish_event_raising(type, id, redis_up) ==
    [raised |-> ~redis_up,
     attempts |-> <<[type |-> type, id |-> id, delivered |-> redis_up]>>]

\* EventPublisher.publish_event (engine/event_publisher.py): one attempt on
\* the channel; when Redis is unavailable or the publish fails the exception
\* is caught and False returned, which no caller looks at.
publish_event(type, id, redis_up) ==
    [raised |-> FALSE,
     attempts |-> <<[type |-> type, id |-> id, delivered |-> redis_up]>>]

\* Mutant: the exception leaves process_aircraft after the position publish.
aborted_after_publish(id, row, log) ==
    [raised |-> TRUE, tag |-> "", row |-> row, events |-> log,
     attempts |-> publish_event("aircraft.position_updated", id, TRUE).attempts,
     telemetry |-> FALSE, used |-> {}]

\* An exception raised in process_aircraft before its first await: by the
\* kinematics step on a row without a position, or by the threshold chain
\* on a NULL last_event_fired.  Nothing was written or published.
aborted(id, row, log) ==
    [raised |-> TRUE, tag |-> "", row |-> row, events |-> log,
     attempts |-> <<>>, telemetry |-> FALSE, used |-> {}]

\* The position column holding NULL: a value with none of the fields of a
\* position.
NullPosition == [null |-> TRUE]

\* position.get(...) of kinematics.update_aircraft_state raises
\* AttributeError when the position column is NULL.
KinematicsRaises(aircraft) == aircraft.position = NullPosition

\* process_aircraft(aircraft) on the row it addresses and the event log.
\* db_row, db_event: whether the row write and the event insert go through;
\* up_event, up_position: whether the two publishes are delivered.
\* Result: raised (an exception left the method), tag (the threshold
\* decided, "" for none), the row and the log afterwards, the publish
\* attempts made, telemetry (whether add_telemetry_snapshot was reached),
\* and the outcome flags the call consulted.
process_aircraft(aircraft, row, log, db_row, db_event, up_event, up_position) ==
    LET id == aircraft.id
        updated == kinematics_update_aircraft_state(aircraft, DT)
        position == updated.position
        distance_nm == updated.distance_to_airport_nm
        altitude_agl == altitude_msl_to_agl(position.altitude_ft, CYYZ_ELEVATION_FT)
        phase == determine_phase(distance_nm, altitude_agl)
        last_event_col == aircraft.last_event_fired
    IN  IF KinematicsRaises(aircraft)
        THEN aborted(id, row, log)
        ELSE IF ThresholdCheckRaises(last_event_col, distance_nm, altitude_agl)
        THEN aborted(id, row, log)
        ELSE
        LET last_event == IF last_event_col = None THEN <<>> ELSE Get(last_event_col)
            tag == new_event(last_event, distance_nm, altitude_agl)
            threshold == publish_event("aircraft.threshold_event", id, up_event)
        IN  IF tag = EVENT_TOUCHDOWN
            THEN [raised |-> threshold.raised, tag |-> tag,
                  row |-> mark_touchdown(row, db_row).row,
                  events |-> create_event(log, EventTypeOf(tag), id, db_event),
                  attempts |-> threshold.attempts,
                  telemetry |-> FALSE,
                  used |-> {"db_row", "db_event", "up_event"}]
            ELSE IF tag # "" /\ threshold.raised
            THEN [raised |-> TRUE, tag |-> tag, row |-> row,
                  events |-> create_event(log, EventTypeOf(tag), id, db_event),
                  attempts |-> threshold.attempts,
                  telemetry |-> FALSE,
                  used |-> {"db_event", "up_event"}]
            ELSE
            LET updates == EngineUpdates(position, updated.vertical_speed_fpm,
                                         phase, last_event, tag)
                moved == publish_event("aircraft.position_updated", id, up_position)
            IN  [raised |-> moved.raised, tag |-> tag,
                 row |-> update_aircraft_state(row, updates, db_row).row,
                 events |-> IF tag = "" THEN log
                            ELSE create_event(log, EventTypeOf(tag), id, db_event),
                 attempts |-> (IF tag = "" THEN <<>> ELSE threshold.attempts)
                              \o moved.attempts,
                 telemetry |-> ~moved.raised,
                 used |-> {"db_row", "up_position"}
                          \cup (IF tag = "" THEN {} ELSE {"db_event", "up_event"})]

\* add_telemetry_snapshot: the snapshot of this tick is appended, and a
\* buffer that has reached the threshold gets one more flush task.
add_telemetry_snapshot(buffer, tasks, tick, id) ==
    LET appended == Append(buffer, [tick |-> tick, id |-> id])
    IN  [buffer |-> appended,
         tasks |-> IF Len(appended) >= flush_threshold THEN tasks + 1 ELSE tasks]

\* Mutant: flush_telemetry without telemetry_buffer.clear().
flush_telemetry_no_clear(buffer, files, written) ==
    [buffer |-> buffer,
     files |-> IF written = 0 THEN files ELSE Append(files, SubSeq(buffer, 1, written)),
     failed |-> written < Len(buffer)]

\* flush_telemetry, which has no await and so runs in one piece: an empty
\* buffer returns at once; otherwise the snapshots are appended to the file
\* and the buffer cleared.  written is the number of lines that reach the
\* file: fewer than the buffer holds when open or write raises, and then
\* the exception is caught and the buffer kept.
flush_telemetry(buffer, files, written) ==
    IF buffer = <<>>
    THEN [buffer |-> buffer, files |-> files, failed |-> FALSE]
    ELSE IF written = Len(buffer)
         THEN [buffer |-> <<>>, files |-> Append(files, buffer), failed |-> FALSE]
         ELSE [buffer |-> buffer,
               files |-> IF written = 0 THEN files
                         ELSE Append(files, SubSeq(buffer, 1, written)),
               failed |-> TRUE]

\* Mutant: the snapshot published at the end of every tick.
snapshot_due_every_tick(tick) == tick >= 0

\* The test of tick() after the loop over the roster.
snapshot_due(tick) == tick % SNAPSHOT_PERIOD = 0

\* Mutant: the duration limit compared with the number of ticks.
duration_reached_by_ticks(elapsed, ticks) ==
    duration_seconds > 0 /\ ticks >= duration_seconds

\* The duration check of run() after the sleep: elapsed is
\* time.time() - start_time.
duration_reached(elapsed, ticks) ==
    duration_seconds > 0 /\ elapsed >= duration_seconds

\* Mutant: the loop sleeps the whole interval after every tick.
iteration_seconds_fixed_sleep(elapsed) == elapsed + DT

\* One loop iteration lasts the tick and then max(0, DT - elapsed) asleep.
iteration_seconds(elapsed) == elapsed + Max(0, DT - elapsed)

\* Mutant: the loop over the roster is left before its last entry.
roster_exhausted_early(i) == i >= Len(roster)

\* The for loop of tick() is over when every entry of aircraft_list has had
\* its turn; the snapshot and the statistics come after it.
roster_exhausted(i) == i > Len(roster)

\* Mutant: an exception of process_aircraft leaves the loop of tick().
next_index_abort(i, raised) == IF raised THEN Len(roster) + 1 ELSE i + 1

\* The loop of tick(): the exception of one aircraft is caught and printed,
\* and the loop goes on with the next roster entry.
next_index(i, raised) == i + 1

-----------------------------------------------------------------------------
(* Initial state: rows as the dispatcher leaves them *)

\* Spawn positions: just outside the entry zone, just outside the handoff
\* ring, and on short final above the touchdown altitude.
StartPositions ==
    { [x |-> ENTRY_ZONE_THRESHOLD_NM + 1, altitude_ft |-> 10000, ground_speed |-> 1],
      [x |-> HANDOFF_READY_THRESHOLD_NM + 1, altitude_ft |-> 7000, ground_speed |-> 1],
      [x |-> 1, altitude_ft |-> CYYZ_ELEVATION_FT + 60, ground_speed |-> 1] }

\* A row as inserted by the dispatcher: the columns added by
\* scripts/migrate_db.py have no value (last_event_fired NULL) unless the
\* dispatcher writes the empty string; it is not owned by the engine.
NewRow(a, flight_type, status, position, last_event) ==
    [id |-> a,
     created_at |-> a,
     status |-> status,
     controller |-> "DISPATCHER",
     flight_type |-> flight_type,
     phase |-> "",
     last_event_fired |-> last_event,
     position |-> position,
     vertical_speed_fpm |-> 0,
     target_speed_kts |-> None,
     target_heading_deg |-> None,
     target_altitude_ft |-> None]

StartRows(a) ==
    {NewRow(a, "ARRIVAL", "active", p, Some(<<>>)) : p \in StartPositions}
    \cup {NewRow(a, "ARRIVAL", "active", p, None) :
            p \in {q \in StartPositions : q.x = HANDOFF_READY_THRESHOLD_NM + 1}}
    \cup {NewRow(a, "DEPARTURE", "active", p, None) :
            p \in {q \in StartPositions : q.x = ENTRY_ZONE_THRESHOLD_NM + 1}}
    \cup {NewRow(a, "ARRIVAL", "landed", p, Some(<<>>)) :
            p \in {q \in StartPositions : q.x = 1}}

NoCall == [op |-> "none", id |-> 0, updates |-> <<>>, before |-> <<>>, ok |-> TRUE]
Idle == [pc |-> "idle", id |-> 0]

Init ==
    /\ rows \in {r \in [Aircraft -> UNION {StartRows(a) : a \in Aircraft}] :
                    \A a \in Aircraft : r[a] \in StartRows(a)}
    /\ events = <<>>
    /\ tick_count = 0
    /\ pc = "sleep"
    /\ roster = <<>>
    /\ idx = 1
    /\ fired = <<>>
    /\ spawn = Idle
    /\ msgs = 0
    /\ failures = 0
    /\ restarts = 0
    /\ fetched = {}
    /\ call = NoCall
    /\ bus = <<>>
    /\ duration_seconds = MaxTicks
    /\ query_limit = RosterLimit
    /\ prng = 0
    /\ kin = <<>>
    /\ clock = 0
    /\ telemetry_buffer = <<>>
    /\ telemetry_files = <<>>
    /\ flush_tasks = 0
    /\ write_errors = 0
    /\ flush_threshold = TELEMETRY_FLUSH_SIZE
    /\ max_tick_seconds = DT
    /\ horizon = MaxTicks
    /\ inbox = <<>>

\* Number of failed database operations among the flags of one action.
Failed(flags) == Cardinality({i \in DOMAIN flags : ~flags[i]})

-----------------------------------------------------------------------------
(* Tick loop: run() and tick() *)

\* One loop iteration up to the roster fetch: tick_count += 1, then tick()
\* fetches the roster; a failed fetch returns [] and an empty roster ends
\* the tick at once.
TickStart ==
    /\ pc = "sleep"
    /\ clock < horizon
    /\ ~duration_reached(clock, tick_count)
    /\ \E db_up \in BOOLEAN :
         /\ failures + Failed(<<db_up>>) <= MaxFailures
         /\ failures' = failures + Failed(<<db_up>>)
         /\ roster' = IF db_up THEN get_active_arrivals("ENGINE") ELSE <<>>
         /\ fetched' = IF db_up THEN Selected("ENGINE") ELSE {}
    /\ tick_count' = tick_count + 1
    /\ pc' = IF roster' = <<>> THEN "sleep" ELSE "process"
    /\ \E elapsed \in 1..max_tick_seconds :
         clock' = IF roster' = <<>> THEN clock + iteration_seconds(elapsed) ELSE clock
    /\ idx' = 1
    /\ fired' = <<>>
    /\ bus' = <<>>
    /\ UNCHANGED <<rows, events, spawn, msgs, restarts, call, setup, inbox, random, telemetry>>

\* process_aircraft for roster[idx], as called from the loop of tick(): an
\* exception is caught there and the loop goes on.
ProcessAircraft ==
    /\ pc = "process"
    /\ idx <= Len(roster)
    /\ \E db_row, db_event, up_event, up_position \in BOOLEAN :
         LET id == roster[idx].id
         IN  \E out \in {process_aircraft(roster[idx], rows[id], events,
                                          db_row, db_event, up_event, up_position)} :
             /\ "db_row" \notin out.used => db_row
             /\ "db_event" \notin out.used => db_event
             /\ "up_event" \notin out.used => up_event
             /\ "up_position" \notin out.used => up_position
             /\ failures + Failed(<<db_row, db_event>>) <= MaxFailures
             /\ failures' = failures + Failed(<<db_row, db_event>>)
             /\ rows' = [rows EXCEPT ![id] = out.row]
             /\ events' = out.events
             /\ bus' = bus \o out.attempts
             /\ fired' = Append(fired, [id |-> id,
                                        tag |-> IF out.raised THEN "ERROR" ELSE out.tag])
             /\ idx' = next_index(idx, out.raised)
             /\ LET added == add_telemetry_snapshot(telemetry_buffer, flush_tasks,
                                                    tick_count, id)
                IN  IF out.telemetry
                    THEN /\ telemetry_buffer' = added.buffer
                         /\ flush_tasks' = added.tasks
                    ELSE UNCHANGED <<telemetry_buffer, flush_tasks>>
    /\ UNCHANGED <<tick_count, pc, roster, spawn, msgs, restarts, fetched, call,
                   setup, inbox, random, clock, telemetry_files, write_errors>>

\* The rest of tick() after the loop: every 10th tick an engine.status row.
TickEnd ==
    /\ pc = "process"
    /\ roster_exhausted(idx)
    /\ IF snapshot_due(tick_count)
       THEN \E db_event \in BOOLEAN :
              /\ failures + Failed(<<db_event>>) <= MaxFailures
              /\ failures' = failures + Failed(<<db_event>>)
              /\ events' = create_event(events, "engine.status", 0, db_event)
       ELSE UNCHANGED <<events, failures>>
    /\ pc' = "sleep"
    /\ roster' = <<>>
    /\ idx' = 1
    /\ fired' = <<>>
    /\ fetched' = {}
    /\ \E up_snapshot \in BOOLEAN :
         /\ ~snapshot_due(tick_count) => up_snapshot
         /\ bus' = IF snapshot_due(tick_count)
                   THEN publish_event("engine.state_snapshot", 0, up_snapshot).attempts
                   ELSE <<>>
    /\ \E elapsed \in 1..max_tick_seconds : clock' = clock + iteration_seconds(elapsed)
    /\ UNCHANGED <<rows, tick_count, spawn, msgs, restarts, call, setup, inbox, random, telemetry>>

-----------------------------------------------------------------------------
(* SpawnListener (engine/spawn_listener.py) *)

AssignUpdates ==
    << [key |-> "controller", value |-> "ENGINE"],
       [key |-> "phase", value |-> "CRUISE"] >>

\* process_aircraft_created_event for a message about row a (the payload
\* carries the row's flight_type), up to the await of the callback.
SpawnReceive(a) ==
    /\ spawn.pc = "idle"
    /\ msgs < MaxMessages
    /\ msgs' = msgs + 1
    /\ IF rows[a].flight_type # "ARRIVAL"
       THEN UNCHANGED <<rows, spawn, failures>>
       ELSE \E db_row \in BOOLEAN :
              LET res == update_aircraft_state(rows[a], AssignUpdates, db_row)
              IN  /\ failures + Failed(<<db_row>>) <= MaxFailures
                  /\ failures' = failures + Failed(<<db_row>>)
                  /\ rows' = [rows EXCEPT ![a] = res.row]
                  /\ spawn' = IF res.ok THEN [pc |-> "callback", id |-> a] ELSE Idle
    /\ UNCHANGED <<events, tick_count, pc, roster, idx, fired, restarts, fetched, call,
                   bus, setup, inbox, random, clock, telemetry>>

\* The callback: KinematicsEngine.on_aircraft_spawned appends ENGINE_ASSIGNED.
on_aircraft_spawned ==
    /\ spawn.pc = "callback"
    /\ \E db_event \in BOOLEAN :
         /\ failures + Failed(<<db_event>>) <= MaxFailures
         /\ failures' = failures + Failed(<<db_event>>)
         /\ events' = create_event(events, "aircraft.engine_assigned", spawn.id, db_event)
    /\ spawn' = Idle
    /\ UNCHANGED <<rows, tick_count, pc, roster, idx, fired, msgs, restarts, fetched, call,
                   bus, setup, inbox, random, clock, telemetry>>

-----------------------------------------------------------------------------
(* Environment *)

\* An external controller takes an aircraft over from the engine.
ExternalHandoff(a) ==
    /\ rows[a].controller = "ENGINE"
    /\ LET res == handoff_to_atc(rows[a], "ENTRY_ATC", TRUE)
       IN  rows' = [rows EXCEPT ![a] = res.row]
    /\ UNCHANGED <<events, tick_count, pc, roster, idx, fired, spawn, msgs,
                   failures, restarts, fetched, call, bus, setup, inbox, random, clock, telemetry>>

\* The engine process is stopped at any await and started again: the tables
\* survive, everything in memory starts afresh.
Restart ==
    /\ restarts < MaxRestarts
    /\ restarts' = restarts + 1
    /\ tick_count' = 0
    /\ pc' = "sleep"
    /\ roster' = <<>>
    /\ idx' = 1
    /\ fired' = <<>>
    /\ spawn' = Idle
    /\ fetched' = {}
    /\ bus' = <<>>
    /\ clock' = 0
    /\ telemetry_buffer' = <<>>
    /\ flush_tasks' = 0
    /\ UNCHANGED <<rows, events, msgs, failures, call, setup, inbox, random,
                   telemetry_files, write_errors>>

Next ==
    \/ TickStart
    \/ ProcessAircraft
    \/ TickEnd
    \/ \E a \in Aircraft : SpawnReceive(a)
    \/ on_aircraft_spawned
    \/ \E a \in Aircraft : ExternalHandoff(a)
    \/ Restart

Spec == Init /\ [][Next]_vars

-----------------------------------------------------------------------------
(* StateStore called on its own: any update dictionary, and mark_touchdown *)

StoreKeys == {"controller", "phase", "status", "callsign"}

StoreValue(key) ==
    IF key = "controller" THEN "GROUND"
    ELSE IF key = "phase" THEN "TOUCHDOWN"
    ELSE IF key = "status" THEN "landed"
    ELSE "ACA101"

\* Dictionaries of up to MaxKeys distinct keys, in every insertion order.
UpdateDicts ==
    LET KeySeqs == UNION {[1..n -> StoreKeys] : n \in 0..MaxKeys}
    IN  {[i \in DOMAIN ks |-> [key |-> ks[i], value |-> StoreValue(ks[i])]] :
            ks \in {q \in KeySeqs : \A i, j \in DOMAIN q : i # j => q[i] # q[j]}}

\* One call per run, on a row as the dispatcher left it.
StoreUpdate(a) ==
    /\ call.op = "none"
    /\ \E updates \in UpdateDicts :
         LET res == update_aircraft_state(rows[a], updates, TRUE)
         IN  /\ rows' = [rows EXCEPT ![a] = res.row]
             /\ call' = [op |-> "update_aircraft_state", id |-> a, updates |-> updates,
                         before |-> rows[a], ok |-> res.ok]
    /\ UNCHANGED <<events, tick_count, pc, roster, idx, fired, spawn, msgs,
                   failures, restarts, fetched, bus, setup, inbox, random, clock, telemetry>>

StoreMarkTouchdown(a) ==
    /\ call.op = "none"
    /\ LET res == mark_touchdown(rows[a], TRUE)
       IN  /\ rows' = [rows EXCEPT ![a] = res.row]
           /\ call' = [op |-> "mark_touchdown", id |-> a, updates |-> TouchdownUpdates,
                       before |-> rows[a], ok |-> res.ok]
    /\ UNCHANGED <<events, tick_count, pc, roster, idx, fired, spawn, msgs,
                   failures, restarts, fetched, bus, setup, inbox, random, clock, telemetry>>

NextStore ==
    \/ \E a \in Aircraft : StoreUpdate(a)
    \/ \E a \in Aircraft : StoreMarkTouchdown(a)

SpecStore == Init /\ [][NextStore]_vars

-----------------------------------------------------------------------------
(* A fleet in flight: rows the SpawnListener has assigned to the engine, a   *)
(* fleet smaller than the LIMIT of the roster query, the tick loop and a     *)
(* redelivered aircraft.created message                                      *)

\* Positions in flight: beyond the entry zone closing at just under 10 NM a
\* tick, on the entry-zone boundary, first seen inside the handoff ring, and
\* inside 10 NM well above 500 ft AGL.
FlightPositions ==
    { [x |-> ENTRY_ZONE_THRESHOLD_NM + 1, altitude_ft |-> 10000,
       ground_speed |-> 10 * DistScale - 1],
      [x |-> ENTRY_ZONE_THRESHOLD_NM, altitude_ft |-> 10000, ground_speed |-> 1],
      [x |-> HANDOFF_READY_THRESHOLD_NM - 5 * DistScale, altitude_ft |-> 7000,
       ground_speed |-> 1],
      [x |-> 10 * DistScale - 1, altitude_ft |-> 3000, ground_speed |-> 1] }

\* A dispatcher row after process_aircraft_created_event has assigned it.
FlightRows(a) ==
    {update_aircraft_state(NewRow(a, "ARRIVAL", "active", p, l), AssignUpdates, TRUE).row :
        p \in FlightPositions, l \in {Some(<<>>), None}}

InitFlight ==
    /\ rows \in {r \in [Aircraft -> UNION {FlightRows(a) : a \in Aircraft}] :
                    \A a \in Aircraft : r[a] \in FlightRows(a)}
    /\ events = <<>>
    /\ tick_count = 0
    /\ pc = "sleep"
    /\ roster = <<>>
    /\ idx = 1
    /\ fired = <<>>
    /\ spawn = Idle
    /\ msgs = MaxMessages - 1
    /\ failures = 0
    /\ restarts = 0
    /\ fetched = {}
    /\ call = NoCall
    /\ bus = <<>>
    /\ duration_seconds = MaxFlightTicks
    /\ query_limit = NumAircraft
    /\ prng = 0
    /\ kin = <<>>
    /\ clock = 0
    /\ telemetry_buffer = <<>>
    /\ telemetry_files = <<>>
    /\ flush_tasks = 0
    /\ write_errors = 0
    /\ flush_threshold = TELEMETRY_FLUSH_SIZE
    /\ max_tick_seconds = DT
    /\ horizon = MaxFlightTicks
    /\ inbox = <<>>

NextFlight ==
    \/ TickStart
    \/ ProcessAircraft
    \/ TickEnd
    \/ \E a \in Aircraft : SpawnReceive(a)
    \/ on_aircraft_spawned

SpecFlight == InitFlight /\ [][NextFlight]_vars

-----------------------------------------------------------------------------
(* The kinematics step on its own: any state, any targets, any seed *)

\* (speed, target) in tenths of a knot: tracking against both limits and
\* both bounds, a speed below the minimum, and drift inside and at a bound.
SpeedCases ==
    { <<5497, Some(6000)>>, <<1403, Some(1000)>>, <<3000, Some(1000)>>,
      <<3000, Some(6000)>>, <<1000, Some(1000)>>, <<3000, None>>, <<5500, None>> }

\* (heading, target) in tenths of a degree: turns through north both ways,
\* a heading outside [0, 360), and drift across north both ways.
HeadingCases ==
    { <<3500, Some(100)>>, <<100, Some(3500)>>, <<3700, Some(100)>>,
      <<0, None>>, <<3590, None>> }

\* (altitude, target, distance): descent to a target below zero, climb,
\* hold, glideslope.
AltitudeCases ==
    { <<10, Some(-1000), 35 * DistScale>>, <<5000, Some(10000), 35 * DistScale>>,
      <<5000, None, 35 * DistScale>>, <<5000, None, 15 * DistScale>> }

KinematicsInputs ==
    { [position |-> [speed_kts |-> s[1], heading |-> h[1], altitude_ft |-> v[1]],
       target_speed_kts |-> s[2],
       target_heading_deg |-> h[2],
       target_altitude_ft |-> v[2],
       distance_nm |-> v[3],
       dt |-> dt] :
        s \in SpeedCases, h \in HeadingCases, v \in AltitudeCases, dt \in {DT, 2 * DT} }

InitKinematics ==
    /\ rows = [a \in Aircraft |->
                 NewRow(a, "ARRIVAL", "active",
                        [x |-> ENTRY_ZONE_THRESHOLD_NM + 1, altitude_ft |-> 10000,
                         ground_speed |-> 1], None)]
    /\ events = <<>>
    /\ tick_count = 0
    /\ pc = "sleep"
    /\ roster = <<>>
    /\ idx = 1
    /\ fired = <<>>
    /\ spawn = Idle
    /\ msgs = 0
    /\ failures = 0
    /\ restarts = 0
    /\ fetched = {}
    /\ call = NoCall
    /\ bus = <<>>
    /\ duration_seconds = MaxTicks
    /\ query_limit = RosterLimit
    /\ prng \in 0..(PrngPeriod - 1)
    /\ kin = <<>>
    /\ clock = 0
    /\ telemetry_buffer = <<>>
    /\ telemetry_files = <<>>
    /\ flush_tasks = 0
    /\ write_errors = 0
    /\ flush_threshold = TELEMETRY_FLUSH_SIZE
    /\ max_tick_seconds = DT
    /\ horizon = MaxTicks
    /\ inbox = <<>>

\* One call of kinematics.update_aircraft_state in the engine's process.
KinematicsStep ==
    /\ Len(kin) < MaxSteps
    /\ \E input \in KinematicsInputs :
         LET horizontal == update_speed_heading(input.position, input.target_speed_kts,
                                                input.target_heading_deg, prng, input.dt)
             vertical == altitude_channel(input.position.altitude_ft,
                                          input.target_altitude_ft, input.distance_nm,
                                          input.distance_nm < 20 * DistScale, input.dt)
         IN  /\ kin' = Append(kin, [input |-> input,
                                    output |-> [speed_kts |-> horizontal.speed_kts,
                                                heading |-> horizontal.heading,
                                                altitude_ft |-> vertical.altitude,
                                                vertical_speed_fpm |-> vertical.vertical_speed_fpm]])
             /\ prng' = horizontal.state
    /\ UNCHANGED <<rows, events, tick_count, pc, roster, idx, fired, spawn, msgs,
                   failures, restarts, fetched, call, bus, setup, inbox, clock, telemetry>>

NextKinematics == KinematicsStep

SpecKinematics == InitKinematics /\ [][NextKinematics]_vars

-----------------------------------------------------------------------------
(* run() from start to shutdown: the duration limit, the flush tasks and   *)
(* the final flush, on a host whose ticks may overrun                       *)

Cancelled == [pc |-> "cancelled", id |-> 0]

\* A flush task created by add_telemetry_snapshot gets its turn at an await
\* of the tick loop or of shutdown.
FlushTask ==
    /\ flush_tasks > 0
    /\ pc # "done"
    /\ \E written \in 0..Len(telemetry_buffer) :
         LET out == flush_telemetry(telemetry_buffer, telemetry_files, written)
         IN  /\ write_errors + (IF out.failed THEN 1 ELSE 0) <= MaxWriteErrors
             /\ write_errors' = write_errors + (IF out.failed THEN 1 ELSE 0)
             /\ telemetry_buffer' = out.buffer
             /\ telemetry_files' = out.files
    /\ flush_tasks' = flush_tasks - 1
    /\ UNCHANGED <<rows, events, tick_count, pc, roster, idx, fired, spawn, msgs,
                   failures, restarts, fetched, call, bus, setup, inbox, random, clock>>

\* The duration check after the sleep breaks the loop; the finally clause
\* cancels the listener task and awaits it: the listener gets CancelledError
\* at the await it is suspended in, which none of its handlers catches.
\* An INSERT of the callback that is under way then has reached the server
\* or has not.
StopLoop ==
    /\ pc = "sleep"
    /\ duration_reached(clock, tick_count)
    /\ pc' = "shutdown"
    /\ spawn' = Cancelled
    /\ \E sent \in BOOLEAN :
         events' = IF spawn.pc = "callback" /\ sent
                   THEN create_event(events, "aircraft.engine_assigned", spawn.id, TRUE)
                   ELSE events
    /\ UNCHANGED <<rows, tick_count, roster, idx, fired, msgs, failures,
                   restarts, fetched, call, bus, setup, inbox, random, clock, telemetry>>

\* shutdown(): the connections are closed and the buffer flushed.
Shutdown ==
    /\ pc = "shutdown"
    /\ \E written \in 0..Len(telemetry_buffer) :
         LET out == flush_telemetry(telemetry_buffer, telemetry_files, written)
         IN  /\ write_errors + (IF out.failed THEN 1 ELSE 0) <= MaxWriteErrors
             /\ write_errors' = write_errors + (IF out.failed THEN 1 ELSE 0)
             /\ telemetry_buffer' = out.buffer
             /\ telemetry_files' = out.files
    /\ pc' = "done"
    /\ UNCHANGED <<rows, events, tick_count, roster, idx, fired, spawn, msgs, failures,
                   restarts, fetched, call, bus, setup, inbox, random, clock, flush_tasks>>

\* Rows at the start of a run: an arrival the engine owns, cruising outside
\* the entry zone, or one the dispatcher has just inserted.
RunRows(a) ==
    LET cruising == [x |-> ENTRY_ZONE_THRESHOLD_NM + 5 * DistScale,
                     altitude_ft |-> 10000, ground_speed |-> 1]
    IN  {NewRow(a, "ARRIVAL", "active", cruising, Some(<<>>)),
         update_aircraft_state(NewRow(a, "ARRIVAL", "active", cruising, Some(<<>>)),
                               AssignUpdates, TRUE).row}

InitRun ==
    /\ rows \in {r \in [Aircraft -> UNION {RunRows(a) : a \in Aircraft}] :
                    \A a \in Aircraft : r[a] \in RunRows(a)}
    /\ events = <<>>
    /\ tick_count = 0
    /\ pc = "sleep"
    /\ roster = <<>>
    /\ idx = 1
    /\ fired = <<>>
    /\ spawn = Idle
    /\ msgs = 0
    /\ failures = 0
    /\ restarts = 0
    /\ fetched = {}
    /\ call = NoCall
    /\ bus = <<>>
    /\ duration_seconds \in {0, MaxRunSeconds}
    /\ query_limit = NumAircraft
    /\ prng = 0
    /\ kin = <<>>
    /\ clock = 0
    /\ telemetry_buffer = <<>>
    /\ telemetry_files = <<>>
    /\ flush_tasks = 0
    /\ write_errors = 0
    /\ flush_threshold = FlushThreshold
    /\ max_tick_seconds = 2 * DT
    /\ horizon = MaxRunSeconds + 1
    /\ inbox = <<>>

NextRun ==
    \/ TickStart
    \/ ProcessAircraft
    \/ TickEnd
    \/ \E a \in Aircraft : SpawnReceive(a)
    \/ on_aircraft_spawned
    \/ FlushTask
    \/ StopLoop
    \/ Shutdown

SpecRun == InitRun /\ [][NextRun]_vars

\* The event loop resumes the coroutine of run() whenever the await it is
\* suspended in has completed: a database call returns or fails, the sleep
\* ends, the cancelled listener task is done.  The weak fairness of
\* ProcessAircraft is written out, with the guard of the action for its
\* enabling condition.
SpecRunFair ==
    /\ InitRun /\ [][NextRun]_vars
    /\ WF_vars(TickStart)
    /\ WF_vars(TickEnd)
    /\ WF_vars(StopLoop)
    /\ WF_vars(Shutdown)
    /\ \/ []<>~(pc = "process" /\ idx <= Len(roster))
       \/ []<><<ProcessAircraft>>_vars

-----------------------------------------------------------------------------
(* heading_difference on its own: headings of [0, 360) and differences of  *)
(* (-180, 180], both ends of the range included                              *)

GeoHeadings == {h \in 0..3599 : h % AngleStep = 0}

GeoDifferences == {d \in -1799..1800 : d % AngleStep = 0 \/ d = -1799 \/ d = 1800}

GeoStep ==
    /\ Len(kin) < MaxSteps
    /\ \E h \in GeoHeadings, d \in GeoDifferences :
         LET target == normalize_heading(h + d)
         IN  kin' = Append(kin, [input |-> [current |-> h, d |-> d, target |-> target],
                                 output |-> heading_difference(h, target)])
    /\ UNCHANGED <<rows, events, tick_count, pc, roster, idx, fired, spawn, msgs,
                   failures, restarts, fetched, call, bus, setup, inbox, prng, clock, telemetry>>

NextGeo == GeoStep

SpecGeo == InitKinematics /\ [][NextGeo]_vars

-----------------------------------------------------------------------------
(* External controllers at work during the ticks: handoffs out of ENGINE   *)
(* and target commands, through the same update_aircraft_state              *)

TargetCommands ==
    { <<[key |-> "target_speed_kts", value |-> Some(250)]>>,
      <<[key |-> "target_heading_deg", value |-> Some(90)]>>,
      <<[key |-> "target_altitude_ft", value |-> Some(5000)]>> }

\* An external controller gives an aircraft its first target.
ExternalTarget(a) ==
    /\ rows[a].target_speed_kts = None
    /\ rows[a].target_heading_deg = None
    /\ rows[a].target_altitude_ft = None
    /\ \E updates \in TargetCommands :
         rows' = [rows EXCEPT ![a] = update_aircraft_state(rows[a], updates, TRUE).row]
    /\ UNCHANGED <<events, tick_count, pc, roster, idx, fired, spawn, msgs,
                   failures, restarts, fetched, call, bus, setup, inbox, random, clock, telemetry>>

\* Owned arrivals on the entry-zone boundary and inside the handoff ring.
ControlRows(a) ==
    {r \in FlightRows(a) : /\ r.last_event_fired # None
                           /\ r.position.x <= ENTRY_ZONE_THRESHOLD_NM
                           /\ r.position.x >= 10 * DistScale}

InitControl ==
    /\ rows \in {r \in [Aircraft -> UNION {ControlRows(a) : a \in Aircraft}] :
                    \A a \in Aircraft : r[a] \in ControlRows(a)}
    /\ events = <<>>
    /\ tick_count = 0
    /\ pc = "sleep"
    /\ roster = <<>>
    /\ idx = 1
    /\ fired = <<>>
    /\ spawn = Idle
    /\ msgs = 0
    /\ failures = 0
    /\ restarts = 0
    /\ fetched = {}
    /\ call = NoCall
    /\ bus = <<>>
    /\ duration_seconds = MaxTicks
    /\ query_limit = NumAircraft
    /\ prng = 0
    /\ kin = <<>>
    /\ clock = 0
    /\ telemetry_buffer = <<>>
    /\ telemetry_files = <<>>
    /\ flush_tasks = 0
    /\ write_errors = 0
    /\ flush_threshold = TELEMETRY_FLUSH_SIZE
    /\ max_tick_seconds = DT
    /\ horizon = MaxTicks
    /\ inbox = <<>>

NextControl ==
    \/ TickStart
    \/ ProcessAircraft
    \/ TickEnd
    \/ \E a \in Aircraft : ExternalHandoff(a)
    \/ \E a \in Aircraft : ExternalTarget(a)

SpecControl == InitControl /\ [][NextControl]_vars

-----------------------------------------------------------------------------
(* Rows the kinematics step or the threshold chain cannot work on, among   *)
(* healthy ones                                                             *)

\* Owned arrivals: healthy on the entry-zone boundary, with a NULL
\* last_event_fired beyond the entry zone and inside the handoff ring, and
\* with a NULL position column.
FaultRows(a) ==
    {r \in FlightRows(a) : \/ r.last_event_fired = None /\ r.position.x # ENTRY_ZONE_THRESHOLD_NM
                           \/ r.last_event_fired # None /\ r.position.x = ENTRY_ZONE_THRESHOLD_NM}
    \cup {[r EXCEPT !.position = NullPosition] :
            r \in {q \in FlightRows(a) : q.position.x = ENTRY_ZONE_THRESHOLD_NM}}

InitFaults ==
    /\ rows \in {r \in [Aircraft -> UNION {FaultRows(a) : a \in Aircraft}] :
                    \A a \in Aircraft : r[a] \in FaultRows(a)}
    /\ events = <<>>
    /\ tick_count = 0
    /\ pc = "sleep"
    /\ roster = <<>>
    /\ idx = 1
    /\ fired = <<>>
    /\ spawn = Idle
    /\ msgs = 0
    /\ failures = 0
    /\ restarts = 0
    /\ fetched = {}
    /\ call = NoCall
    /\ bus = <<>>
    /\ duration_seconds = MaxFlightTicks
    /\ query_limit = NumAircraft
    /\ prng = 0
    /\ kin = <<>>
    /\ clock = 0
    /\ telemetry_buffer = <<>>
    /\ telemetry_files = <<>>
    /\ flush_tasks = 0
    /\ write_errors = 0
    /\ flush_threshold = TELEMETRY_FLUSH_SIZE
    /\ max_tick_seconds = DT
    /\ horizon = MaxFlightTicks
    /\ inbox = <<>>

NextFaults ==
    \/ TickStart
    \/ ProcessAircraft
    \/ TickEnd

SpecFaults == InitFaults /\ [][NextFaults]_vars

-----------------------------------------------------------------------------
(* The listener on a channel that carries every kind of message *)

\* What get_message can return: data that is not JSON, JSON that is not an
\* object, and objects of type aircraft.created or of another type, about
\* an arrival or a departure.
Messages ==
    { [json |-> j, type |-> "", flight_type |-> "", id |-> 0] : j \in {"invalid", "array"} }
    \cup { [json |-> "object", type |-> t, flight_type |-> f, id |-> a] :
             t \in {"aircraft.created", "aircraft.position_updated"},
             f \in {"ARRIVAL", "DEPARTURE"},
             a \in Aircraft }

\* Mutant: the flight_type of the payload is not looked at.
HandledAsArrival_any_flight(m) ==
    /\ m.json = "object"
    /\ m.type = "aircraft.created"

\* The message reaches update_aircraft_state: json.loads returns an object
\* (JSONDecodeError is passed over, AttributeError of payload.get on
\* another value is caught by the loop), its type is aircraft.created, and
\* the flight_type of its aircraft is ARRIVAL.
HandledAsArrival(m) ==
    /\ m.json = "object"
    /\ m.type = "aircraft.created"
    /\ m.flight_type = "ARRIVAL"

\* One iteration of the loop of listen_async on message m, up to the await
\* of the callback.
listen_async(m) ==
    /\ spawn.pc = "idle"
    /\ msgs < MaxMessages
    /\ msgs' = msgs + 1
    /\ inbox' = Append(inbox, m)
    /\ IF ~HandledAsArrival(m)
       THEN UNCHANGED <<rows, spawn, failures>>
       ELSE \E db_row \in BOOLEAN :
              LET res == update_aircraft_state(rows[m.id], AssignUpdates, db_row)
              IN  /\ failures + Failed(<<db_row>>) <= MaxFailures
                  /\ failures' = failures + Failed(<<db_row>>)
                  /\ rows' = [rows EXCEPT ![m.id] = res.row]
                  /\ spawn' = IF res.ok THEN [pc |-> "callback", id |-> m.id] ELSE Idle
    /\ UNCHANGED <<events, tick_count, pc, roster, idx, fired, restarts, fetched, call,
                   bus, setup, random, clock, telemetry>>

NextIngest ==
    \/ \E m \in Messages : listen_async(m)
    \/ on_aircraft_spawned

SpecIngest == Init /\ [][NextIngest]_vars

-----------------------------------------------------------------------------
(* The altitude channel of the kinematics step on its own *)

\* Altitudes and targets: climbs and descents longer than a tick allows,
\* targets closer than one tick's change on either side, no target.
VerticalTargets ==
    {None, Some(0), Some(3000), Some(3020), Some(4975), Some(5000), Some(10000)}

\* Distances inside 10 NM, inside 20 NM, inside 30 NM and beyond.
VerticalDistances == {5 * DistScale, 15 * DistScale, 25 * DistScale, 35 * DistScale}

VerticalInputs ==
    { [altitude_ft |-> h, target_altitude_ft |-> t, distance_nm |-> d, dt |-> dt] :
        h \in {3000, 5000}, t \in VerticalTargets, d \in VerticalDistances,
        dt \in {DT, 2 * DT} }

\* The altitude part of one call of kinematics.update_aircraft_state:
\* is_approach is distance_nm < 20, as the step computes it.
AltitudeStep ==
    /\ Len(kin) < MaxSteps
    /\ \E input \in VerticalInputs :
         LET vertical == altitude_channel(input.altitude_ft, input.target_altitude_ft,
                                          input.distance_nm,
                                          input.distance_nm < 20 * DistScale, input.dt)
         IN  kin' = Append(kin, [input |-> input,
                                 output |-> [altitude_ft |-> vertical.altitude,
                                             vertical_speed_fpm |->
                                                 vertical.vertical_speed_fpm]])
    /\ UNCHANGED <<rows, events, tick_count, pc, roster, idx, fired, spawn, msgs,
                   failures, restarts, fetched, call, bus, setup, inbox, prng, clock,
                   telemetry>>

NextVertical == AltitudeStep

SpecVertical == InitKinematics /\ [][NextVertical]_vars

-----------------------------------------------------------------------------
(* update_heading applied again and again to its own result *)

\* Headings of [0, 360) in tenths of a degree: the grid, and the pair 350 /
\* 10 either side of north.
TurnHeadings == GeoHeadings \cup {100, 3500}

\* Speeds in tenths of a knot: below the 1 m/s guard, the minimum, a usual
\* approach speed and the maximum.
TurnSpeeds == {10, DEFAULT_MIN_SPEED_KTS * 10, 2500, DEFAULT_MAX_SPEED_KTS * 10}

\* The first call turns from any heading towards any target; every later
\* call starts from the heading the call before it returned.
TurnStep ==
    /\ Len(kin) < MaxTurnSteps
    /\ \E input \in IF kin = <<>>
                     THEN { [current |-> c, target |-> t, speed_kts |-> v, dt |-> dt] :
                              c \in TurnHeadings, t \in TurnHeadings, v \in TurnSpeeds,
                              dt \in {DT, 2 * DT} }
                     ELSE { [kin[Len(kin)].input EXCEPT !.current = kin[Len(kin)].output] } :
         kin' = Append(kin, [input |-> input,
                             output |-> update_heading(input.current, input.target,
                                                       input.speed_kts, input.dt)])
    /\ UNCHANGED <<rows, events, tick_count, pc, roster, idx, fired, spawn, msgs,
                   failures, restarts, fetched, call, bus, setup, inbox, prng, clock,
                   telemetry>>

NextTurn == TurnStep

SpecTurn == InitKinematics /\ [][NextTurn]_vars

-----------------------------------------------------------------------------
(* Owned arrivals on both sides of every boundary of the phase table,      *)
(* holding their altitude                                                    *)

\* Distances of 9.9, 10.0, 29.9 and 30.0 NM; altitudes of 499 and 500 ft
\* AGL, each held by an altitude target.
PhaseRows(a) ==
    { [update_aircraft_state(
           NewRow(a, "ARRIVAL", "active",
                  [x |-> d, altitude_ft |-> CYYZ_ELEVATION_FT + h, ground_speed |-> 1],
                  Some(<<>>)),
           AssignUpdates, TRUE).row
         EXCEPT !.target_altitude_ft = Some(CYYZ_ELEVATION_FT + h)] :
        d \in {10 * DistScale - 1, 10 * DistScale, 30 * DistScale - 1, 30 * DistScale},
        h \in {499, 500} }

InitPhase ==
    /\ rows \in {r \in [Aircraft -> UNION {PhaseRows(a) : a \in Aircraft}] :
                    \A a \in Aircraft : r[a] \in PhaseRows(a)}
    /\ events = <<>>
    /\ tick_count = 0
    /\ pc = "sleep"
    /\ roster = <<>>
    /\ idx = 1
    /\ fired = <<>>
    /\ spawn = Idle
    /\ msgs = 0
    /\ failures = 0
    /\ restarts = 0
    /\ fetched = {}
    /\ call = NoCall
    /\ bus = <<>>
    /\ duration_seconds = MaxTicks
    /\ query_limit = NumAircraft
    /\ prng = 0
    /\ kin = <<>>
    /\ clock = 0
    /\ telemetry_buffer = <<>>
    /\ telemetry_files = <<>>
    /\ flush_tasks = 0
    /\ write_errors = 0
    /\ flush_threshold = TELEMETRY_FLUSH_SIZE
    /\ max_tick_seconds = DT
    /\ horizon = MaxTicks
    /\ inbox = <<>>

NextPhase ==
    \/ TickStart
    \/ ProcessAircraft
    \/ TickEnd

SpecPhase == InitPhase /\ [][NextPhase]_vars

-----------------------------------------------------------------------------
(* Properties *)

RosterIds == {roster[i].id : i \in DOMAIN roster}

LastEventSeq(row) == IF row.last_event_fired = None THEN <<>> ELSE Get(row.last_event_fired)

TagSet(row) == {LastEventSeq(row)[i] : i \in DOMAIN LastEventSeq(row)}

Controllers == {"DISPATCHER", "ENGINE", "ENTRY_ATC", "GROUND"}

\* C1: for every aircraft and every threshold tag T, T occurs at most once in
\* the persisted last_event_fired and at most one event row for T exists,
\* over any sequence of ticks; stated here for the runs without a failed
\* write and without a restart, which the claim includes.
C1_ThresholdExactlyOnce ==
    (failures = 0 /\ restarts = 0) =>
        \A a \in Aircraft : \A T \in ThresholdTags :
            /\ CountTag(LastEventSeq(rows[a]), T) <= 1
            /\ EventCount(EventTypeOf(T), a) <= 1

\* C2: once TOUCHDOWN has fired for an aircraft (its touchdown event row
\* exists, or the tick in progress decided it), get_active_arrivals(ENGINE)
\* does not return that aircraft any more; stated here for the runs without
\* a failed write, a restart or a redelivered message.
C2_TouchdownTerminal ==
    (failures = 0 /\ restarts = 0 /\ msgs <= 1) =>
        \A a \in Aircraft :
            (\/ EventCount("aircraft.touchdown", a) > 0
             \/ \E i \in DOMAIN fired : fired[i] = [id |-> a, tag |-> EVENT_TOUCHDOWN])
            => \A i \in DOMAIN get_active_arrivals("ENGINE") :
                  get_active_arrivals("ENGINE")[i].id # a

\* C3: after mark_touchdown(id) has returned, the row has status = landed,
\* controller = GROUND and phase = TOUCHDOWN, all three together.
C3_MarkTouchdownCompound ==
    call.op = "mark_touchdown" =>
        /\ rows[call.id].status = "landed"
        /\ rows[call.id].controller = "GROUND"
        /\ rows[call.id].phase = "TOUCHDOWN"

\* The thresholds whose condition holds for a roster entry after the
\* kinematics step and whose tag the entry's last_event_fired does not hold.
Candidates(e) ==
    LET upd == kinematics_update_aircraft_state(e, DT)
        d == upd.distance_to_airport_nm
        agl == upd.position.altitude_ft - CYYZ_ELEVATION_FT
    IN  {T \in ThresholdTags \ TagSet(e) :
            \/ T = EVENT_TOUCHDOWN /\ agl < 50
            \/ T = EVENT_HANDOFF_READY /\ d <= 20 * DistScale
            \/ T = EVENT_ENTERED_ENTRY_ZONE /\ d <= 30 * DistScale}

Priority(T) ==
    IF T = EVENT_TOUCHDOWN THEN 1 ELSE IF T = EVENT_HANDOFF_READY THEN 2 ELSE 3

Top(C) == CHOOSE T \in C : \A U \in C : Priority(T) <= Priority(U)

C4Step ==
    (pc = "process" /\ idx' = idx + 1) =>
        LET e == roster[idx]
            C == Candidates(e)
            newRows == SubSeq(events', Len(events) + 1, Len(events'))
        IN  /\ Len(newRows) <= 1
            /\ \A k \in DOMAIN newRows :
                  C # {} /\ newRows[k] = EventRow(EventTypeOf(Top(C)), e.id)
            /\ rows'[e.id].last_event_fired # rows[e.id].last_event_fired
                  => /\ C # {}
                     /\ rows'[e.id].last_event_fired = Some(Append(LastEventSeq(e), Top(C)))
            /\ fired'[idx].tag \in ThresholdTags
                  => C # {} /\ fired'[idx].tag = Top(C)

\* C4: in every tick and for every aircraft at most one threshold fires (at
\* most one event row is appended and at most one tag is added), and it is
\* the candidate of highest priority TOUCHDOWN > HANDOFF_READY >
\* ENTERED_ENTRY_ZONE, a candidate being a threshold whose condition holds
\* and whose tag is not yet in last_event_fired.
C4_OneThresholdByPriority == [][C4Step]_vars

\* C4 witness: TOUCHDOWN was fired for an aircraft for which all three
\* thresholds were candidates, and its event row is in the log.
C4_Witness ==
    /\ pc = "process"
    /\ \E i \in DOMAIN fired :
          /\ fired[i].tag = EVENT_TOUCHDOWN
          /\ Candidates(roster[i]) = ThresholdTags
          /\ EventCount("aircraft.touchdown", fired[i].id) = 1

C6_OneEngineAssignedRow ==
    \A a \in Aircraft : EventCount("aircraft.engine_assigned", a) <= 1

\* C7 as claimed: every tick that starts has in its roster every active
\* arrival whose controller the SpawnIngestor has set to ENGINE.
C7_AssignedInNextRoster ==
    [][tick_count' = tick_count + 1
         => \A a \in Selected("ENGINE") : \E i \in DOMAIN roster' : roster'[i].id = a]_vars

NewerOwned(a) ==
    {b \in Selected("ENGINE") : rows[b].created_at > rows[a].created_at}

\* C7 amended: a tick that starts and whose roster fetch succeeds has in its
\* roster every active arrival the SpawnIngestor has set to ENGINE that is
\* still owned and has fewer than RosterLimit newer owned active arrivals,
\* whether or not the ingestor's callback has run yet.
C7_AssignedInNextFetchedRoster ==
    [][(tick_count' = tick_count + 1 /\ failures' = failures)
         => \A a \in Selected("ENGINE") :
               Cardinality(NewerOwned(a)) < RosterLimit
                  => \E i \in DOMAIN roster' : roster'[i].id = a]_vars

\* C7 witness: the first tick after an assignment has the aircraft in its
\* roster while the ingestor's callback is still pending.
C7_Witness ==
    /\ spawn.pc = "callback"
    /\ msgs = 1
    /\ pc = "process"
    /\ spawn.id \in RosterIds

\* C8: whenever the SpawnIngestor writes a row, the row's controller is not
\* ENGINE at the time of the write.
C8_IngestorWritesUnownedOnly ==
    [][(msgs' = msgs + 1 /\ spawn'.pc = "callback")
         => rows[spawn'.id].controller # "ENGINE"]_vars

\* C9: every row get_active_arrivals(c) returns is, at query time, active,
\* controlled by c and an ARRIVAL; at most RosterLimit rows are returned,
\* newest first, and they are the newest of the qualifying rows; a landed
\* row is never returned.
C9_ActiveArrivalsFilter ==
    \A c \in Controllers :
        LET r == get_active_arrivals(c)
            ids == {r[i].id : i \in DOMAIN r}
        IN  /\ Len(r) <= RosterLimit
            /\ \A i \in DOMAIN r :
                  /\ r[i] = rows[r[i].id]
                  /\ r[i].status = "active"
                  /\ r[i].status # "landed"
                  /\ r[i].controller = c
                  /\ r[i].flight_type = "ARRIVAL"
            /\ \A i, j \in DOMAIN r : i < j => r[i].created_at > r[j].created_at
            /\ \A b \in Aircraft \ ids :
                  (rows[b].status = "active" /\ rows[b].controller = c
                     /\ rows[b].flight_type = "ARRIVAL")
                  => \A i \in DOMAIN r : r[i].created_at > rows[b].created_at

\* C9 witness: a landed arrival is under ENGINE control while the query for
\* ENGINE returns a full page of other rows.
C9_Witness ==
    /\ \E a \in Aircraft : /\ rows[a].status = "landed"
                           /\ rows[a].controller = "ENGINE"
                           /\ rows[a].flight_type = "ARRIVAL"
    /\ Len(get_active_arrivals("ENGINE")) = RosterLimit

\* The items of an update dictionary that update_aircraft_state knows.
KnownOnly(updates) == SelectSeq(updates, LAMBDA u : IsSettable(u.key))

\* C10: for every update dictionary the call succeeds and leaves the row as
\* the same dictionary without its unknown keys would, wherever the unknown
\* keys stand among the known ones.
C10_UnknownKeysIgnored ==
    call.op = "update_aircraft_state" =>
        /\ call.ok
        /\ rows[call.id] = update_aircraft_state(call.before, KnownOnly(call.updates), TRUE).row

-----------------------------------------------------------------------------
(* Error isolation and the bus *)

\* A step of process_aircraft for roster[idx].
IsProcessStep == pc = "process" /\ idx <= Len(roster) /\ Len(fired') = Len(fired) + 1

C11Loop ==
    pc = "process" =>
        /\ idx <= Len(roster) + 1
        /\ Len(fired) = idx - 1
        /\ \A i \in DOMAIN fired : fired[i].id = roster[i].id

C11Step ==
    /\ (IsProcessStep /\ fired'[idx].tag = "ERROR") =>
          /\ pc' = "process"
          /\ roster' = roster
          /\ idx' = idx + 1
          /\ \A b \in Aircraft \ {roster[idx].id} : rows'[b] = rows[b]
    /\ (pc = "process" /\ pc' = "sleep" /\ restarts' = restarts) =>
          /\ Len(fired) = Len(roster)
          /\ tick_count' = tick_count
          /\ tick_count < duration_seconds => (pc' = "sleep" /\ idx' = 1)

\* C11: when process_aircraft fails for one roster entry, the rows of the
\* other aircraft are untouched and the loop moves to the next entry, so
\* that at every point of a tick the entries before idx are exactly the
\* processed ones in roster order; the tick ends only when every roster
\* entry has been processed, and it leaves the loop where the next tick
\* starts.
C11_ErrorIsolation == []C11Loop /\ [][C11Step]_vars

\* C11 witness: the first of two roster entries raised, and the second has
\* been processed and its new position persisted.
C11_Witness ==
    /\ pc = "process"
    /\ Len(roster) = 2
    /\ Len(fired) = 2
    /\ fired[1].tag = "ERROR"
    /\ fired[2].tag # "ERROR"
    /\ rows[roster[2].id].position # roster[2].position

\* The publish attempts a step adds.
NewAttempts == SubSeq(bus', Len(bus) + 1, Len(bus'))

C12Step ==
    IsProcessStep =>
        LET e == roster[idx]
            new == NewAttempts
        IN  /\ \E db_row, db_event \in BOOLEAN :
                  LET delivered == process_aircraft(e, rows[e.id], events,
                                                    db_row, db_event, TRUE, TRUE)
                  IN  /\ failures' - failures <= Failed(<<db_row, db_event>>)
                      /\ rows' = [rows EXCEPT ![e.id] = delivered.row]
                      /\ events' = delivered.events
            /\ idx' = idx + 1
            /\ pc' = "process"
            /\ \A i, j \in DOMAIN new : i # j => new[i].type # new[j].type
            /\ (\E i \in DOMAIN new : /\ new[i].type = "aircraft.threshold_event"
                                        /\ ~new[i].delivered
                                        /\ fired'[idx].tag # EVENT_TOUCHDOWN)
                  => \E j \in DOMAIN new : new[j].type = "aircraft.position_updated"

\* C12: whatever the outcome of its publishes, a process_aircraft step
\* writes the rows and event rows (last_event_fired included) it writes when
\* every publish is delivered; each message is attempted once, and after a
\* failed publish the step goes on to persist, to publish the position and
\* to the next roster entry.
C12_BusBestEffort == [][C12Step]_vars

\* C12 witness: the threshold publish of an aircraft failed in this tick,
\* its tag and event row are persisted and its position was published.
C12_Witness ==
    /\ pc = "process"
    /\ \E i \in DOMAIN bus :
          /\ bus[i].type = "aircraft.threshold_event"
          /\ ~bus[i].delivered
          /\ Contains(LastEventSeq(rows[bus[i].id]), EVENT_ENTERED_ENTRY_ZONE)
          /\ EventCount("aircraft.entered_entry_zone", bus[i].id) = 1
          /\ \E j \in DOMAIN bus : /\ j > i
                                     /\ bus[j].id = bus[i].id
                                     /\ bus[j].type = "aircraft.position_updated"

-----------------------------------------------------------------------------
(* Kinematics *)

\* Length of the shortest arc between two headings in [0, 360).
Arc(from, to) == Min((to - from) % 3600, (from - to) % 3600)

\* C13: every state the kinematics step produces has its heading in
\* [0, 360) and its speed in [140, 550] kt, whatever the input state and
\* whichever targets are present.
C13_HeadingAndSpeedInRange ==
    \A i \in DOMAIN kin :
        /\ kin[i].output.heading >= 0
        /\ kin[i].output.heading < 3600
        /\ kin[i].output.speed_kts >= DEFAULT_MIN_SPEED_KTS * 10
        /\ kin[i].output.speed_kts <= DEFAULT_MAX_SPEED_KTS * 10

\* C13 witness: a step from a speed below the minimum towards a target
\* below the minimum, and a step whose heading drifted below north.
C13_Witness ==
    \E i, j \in DOMAIN kin :
        /\ kin[i].input.position.speed_kts < DEFAULT_MIN_SPEED_KTS * 10
        /\ kin[i].input.target_speed_kts # None
        /\ kin[i].output.speed_kts = DEFAULT_MIN_SPEED_KTS * 10
        /\ kin[j].input.position.heading = 0
        /\ kin[j].input.target_heading_deg = None
        /\ kin[j].output.heading = 3600 - DRIFT_HEADING_DEG * 10

\* C14: no kinematics step produces a negative altitude, for every input
\* state and every altitude target, targets below zero included.
C14_AltitudeNonNegative ==
    \A i \in DOMAIN kin : kin[i].output.altitude_ft >= 0

\* C15 as claimed: in one step the speed changes by at least -0.8 kt and at
\* most +0.6 kt per second of dt and the heading by at most the
\* bank-limited turn rate times dt, with or without a target and whatever
\* the current speed.
C15_RateLimits ==
    \A i \in DOMAIN kin :
        LET in == kin[i].input
            out == kin[i].output
        IN  /\ out.speed_kts - in.position.speed_kts >= -A_DEC_MAX_E1 * in.dt
            /\ out.speed_kts - in.position.speed_kts <= A_ACC_MAX_E1 * in.dt
            /\ Arc(normalize_heading(in.position.heading), out.heading)
                  <= calculate_max_turn_rate(in.position.speed_kts) * in.dt

\* C15 amended: a speed channel with a target changes a speed that is
\* within [140, 550] kt by at least -0.8 and at most +0.6 kt per second of
\* dt, and moves a speed outside that range onto it; a heading channel with
\* a target turns by at most the turn rate at the speed before the step
\* times dt; a channel without a target drifts by at most 5 kt (then
\* clamped) or 2 degrees, whatever dt.
C15_RateLimitsWithTarget ==
    \A i \in DOMAIN kin :
        LET in == kin[i].input
            out == kin[i].output
            speed == in.position.speed_kts
            in_range == /\ speed >= DEFAULT_MIN_SPEED_KTS * 10
                        /\ speed <= DEFAULT_MAX_SPEED_KTS * 10
        IN  /\ (in.target_speed_kts # None /\ in_range) =>
                  /\ out.speed_kts - speed >= -A_DEC_MAX_E1 * in.dt
                  /\ out.speed_kts - speed <= A_ACC_MAX_E1 * in.dt
            /\ (in.target_speed_kts = None /\ in_range) =>
                  Abs(out.speed_kts - speed) <= DRIFT_SPEED_KT * 10
            /\ ~in_range =>
                  /\ out.speed_kts >= DEFAULT_MIN_SPEED_KTS * 10
                  /\ out.speed_kts <= DEFAULT_MAX_SPEED_KTS * 10
            /\ in.target_heading_deg # None =>
                  Arc(normalize_heading(in.position.heading), out.heading)
                     <= calculate_max_turn_rate(speed) * in.dt
            /\ in.target_heading_deg = None =>
                  Arc(normalize_heading(in.position.heading), out.heading)
                     <= DRIFT_HEADING_DEG * 10

\* C15 witness: a step that accelerated at the limit while turning through
\* north at the turn rate of its speed.
C15_Witness ==
    \E i \in DOMAIN kin :
        LET in == kin[i].input
            out == kin[i].output
        IN  /\ in.target_speed_kts # None
            /\ out.speed_kts = in.position.speed_kts + A_ACC_MAX_E1 * in.dt
            /\ in.target_heading_deg # None
            /\ in.position.heading = 3500
            /\ Get(in.target_heading_deg) = 100
            /\ out.heading = 3500 + calculate_max_turn_rate(in.position.speed_kts) * in.dt

\* C16: two kinematics steps of one process with the same input state and
\* the same targets produce the same output, whatever was processed
\* between them.
C16_Deterministic ==
    \A i, j \in DOMAIN kin :
        kin[i].input = kin[j].input => kin[i].output = kin[j].output

-----------------------------------------------------------------------------
(* Scenarios of the threshold machine *)

\* C17: when HANDOFF_READY is the first tag of an aircraft (it fired while
\* ENTERED_ENTRY_ZONE was not in last_event_fired), last_event_fired is
\* exactly HANDOFF_READY from then on: ENTERED_ENTRY_ZONE is never added in
\* a later tick.  Stated for the runs without a failed write.
C17_EntryNeverAfterHandoff ==
    failures = 0 =>
        \A a \in Aircraft :
            LET last_event == LastEventSeq(rows[a])
            IN  (Len(last_event) >= 1 /\ last_event[1] = EVENT_HANDOFF_READY)
                    => last_event = <<EVENT_HANDOFF_READY>>

\* The aircraft of scenario 2: it started beyond 30 NM and closes on the
\* field by less than 10 NM a tick.
Inbound(row) ==
    /\ row.position.ground_speed > 1
    /\ row.position.ground_speed < 10 * DistScale

\* C18: for an aircraft that starts beyond 30 NM and closes by less than
\* 10 NM a tick, ENTERED_ENTRY_ZONE fires in the first tick that sees it
\* within 30 NM, which is before HANDOFF_READY can fire; each has at most
\* one event row, and once HANDOFF_READY has fired last_event_fired is
\* ENTERED_ENTRY_ZONE,HANDOFF_READY.  Stated for the runs without a failed
\* write.
C18_EntryThenHandoff ==
    failures = 0 =>
        /\ \A i \in DOMAIN fired :
              (/\ pc = "process"
               /\ Inbound(roster[i])
               /\ distance_to_airport(roster[i].position) <= ENTRY_ZONE_THRESHOLD_NM
               /\ ~Contains(LastEventSeq(roster[i]), EVENT_ENTERED_ENTRY_ZONE))
              => /\ fired[i].tag = EVENT_ENTERED_ENTRY_ZONE
                 /\ distance_to_airport(roster[i].position) > HANDOFF_READY_THRESHOLD_NM
        /\ \A a \in Aircraft :
              Inbound(rows[a]) =>
                 /\ EventCount("aircraft.entered_entry_zone", a) <= 1
                 /\ EventCount("aircraft.handoff_ready", a) <= 1
                 /\ EventCount("aircraft.handoff_ready", a) = 1
                      => LastEventSeq(rows[a]) = <<EVENT_ENTERED_ENTRY_ZONE, EVENT_HANDOFF_READY>>

\* C19: an owned arrival whose last_event_fired holds no tag, unset or
\* empty, and that a tick sees within 30 NM (30.0 NM included), outside
\* 20 NM and above the touchdown altitude, fires ENTERED_ENTRY_ZONE in that
\* tick and has its new position persisted.  Stated for the runs without a
\* failed write.
C19_FirstThresholdFromUnset ==
    (failures = 0 /\ pc = "process") =>
        \A i \in DOMAIN fired :
            (TagSet(roster[i]) = {} /\ Candidates(roster[i]) = {EVENT_ENTERED_ENTRY_ZONE})
            => /\ fired[i].tag = EVENT_ENTERED_ENTRY_ZONE
               /\ rows[roster[i].id].position
                     = kinematics_update_aircraft_state(roster[i], DT).position

\* C20: a stored phase APPROACH is never followed by a stored phase CRUISE
\* while the aircraft is within 30 NM, whatever step of the tick loop or of
\* the SpawnListener is taken.
C20_PhaseMonotone ==
    [][\A a \in Aircraft :
          (/\ rows[a].phase = "APPROACH"
           /\ distance_to_airport(rows[a].position) < ENTRY_ZONE_THRESHOLD_NM
           /\ distance_to_airport(rows'[a].position) < ENTRY_ZONE_THRESHOLD_NM)
          => rows'[a].phase # "CRUISE"]_vars

-----------------------------------------------------------------------------
(* The ticks around a multiple of SNAPSHOT_PERIOD: the loop has been        *)
(* running, the rows are owned arrivals in flight or rows the engine does    *)
(* not own                                                                   *)

SnapshotRows(a) ==
    FlightRows(a)
    \cup {NewRow(a, "ARRIVAL", "active", p, Some(<<>>)) :
            p \in {q \in StartPositions : q.x = ENTRY_ZONE_THRESHOLD_NM + 1}}

InitSnapshot ==
    /\ rows \in {r \in [Aircraft -> UNION {SnapshotRows(a) : a \in Aircraft}] :
                    \A a \in Aircraft : r[a] \in SnapshotRows(a)}
    /\ events = <<>>
    /\ tick_count = SNAPSHOT_PERIOD - MaxTicks
    /\ pc = "sleep"
    /\ roster = <<>>
    /\ idx = 1
    /\ fired = <<>>
    /\ spawn = Idle
    /\ msgs = 0
    /\ failures = 0
    /\ restarts = 0
    /\ fetched = {}
    /\ call = NoCall
    /\ bus = <<>>
    /\ duration_seconds = 0
    /\ query_limit = NumAircraft
    /\ prng = 0
    /\ kin = <<>>
    /\ clock = SNAPSHOT_PERIOD - MaxTicks
    /\ telemetry_buffer = <<>>
    /\ telemetry_files = <<>>
    /\ flush_tasks = 0
    /\ write_errors = 0
    /\ flush_threshold = TELEMETRY_FLUSH_SIZE
    /\ max_tick_seconds = DT
    /\ horizon = SNAPSHOT_PERIOD + MaxTicks - 1
    /\ inbox = <<>>

NextSnapshot ==
    \/ TickStart
    \/ ProcessAircraft
    \/ TickEnd

SpecSnapshot == InitSnapshot /\ [][NextSnapshot]_vars

-----------------------------------------------------------------------------
(* The snapshot, the position message and the telemetry of a tick *)

\* A step in which a tick ends: a tick with an empty roster ends in the
\* step that starts it.
TickEnds ==
    \/ tick_count' = tick_count + 1 /\ pc' = "sleep"
    \/ pc = "process" /\ pc' = "sleep" /\ tick_count' = tick_count

Published(attempts, type) == Cardinality({i \in DOMAIN attempts : attempts[i].type = type})

StatusRows(log) == Cardinality({i \in DOMAIN log : log[i].type = "engine.status"})

\* C21: a tick whose counter is a multiple of 10 publishes exactly one
\* engine.state_snapshot and creates exactly one engine.status event row
\* by the time it ends, and a tick whose counter is not publishes and
\* creates none.  Stated for the ticks without a failed database operation.
C21_SnapshotEveryTenthTick ==
    [][(TickEnds /\ failures' = failures) =>
          LET snapshots == Published(bus', "engine.state_snapshot")
              status == StatusRows(events') - StatusRows(events)
          IN  IF tick_count' % SNAPSHOT_PERIOD = 0
              THEN snapshots = 1 /\ status = 1
              ELSE snapshots = 0 /\ status = 0]_vars

\* C21 amended: a tick whose roster is not empty and whose counter is a
\* multiple of 10 publishes exactly one engine.state_snapshot when it ends
\* and, its insert succeeding, creates exactly one engine.status event row;
\* a tick with an empty roster or another counter publishes and creates
\* none.
C21_SnapshotEveryTenthNonEmptyTick ==
    [][TickEnds =>
          LET snapshots == Published(bus', "engine.state_snapshot")
              status == StatusRows(events') - StatusRows(events)
          IN  IF pc = "process" /\ tick_count' % SNAPSHOT_PERIOD = 0
              THEN /\ snapshots = 1
                   /\ status <= 1
                   /\ failures' = failures => status = 1
              ELSE snapshots = 0 /\ status = 0]_vars

\* C21 witness: tick 10 has ended with its snapshot published and its
\* engine.status row in the log.
C21_Witness ==
    /\ pc = "sleep"
    /\ tick_count = SNAPSHOT_PERIOD
    /\ Published(bus, "engine.state_snapshot") = 1
    /\ StatusRows(events) = 1

\* C22: a process_aircraft step that ends without an exception publishes
\* exactly one aircraft.position_updated message for the aircraft and
\* appends exactly one telemetry snapshot of this tick for it, whether or
\* not a threshold fired in the step, TOUCHDOWN included.
C22_PositionAndTelemetryPerAircraft ==
    [][(IsProcessStep /\ fired'[idx].tag # "ERROR") =>
          /\ Published(NewAttempts, "aircraft.position_updated") = 1
          /\ \A i \in DOMAIN NewAttempts :
                NewAttempts[i].type = "aircraft.position_updated"
                   => NewAttempts[i].id = roster[idx].id
          /\ telemetry_buffer'
                = Append(telemetry_buffer, [tick |-> tick_count, id |-> roster[idx].id])]_vars

-----------------------------------------------------------------------------
(* The run: duration limit, telemetry *)

C23State ==
    /\ duration_seconds = 0 => pc \in {"sleep", "process"}
    /\ pc \in {"shutdown", "done"} =>
          /\ clock >= duration_seconds
          /\ spawn = Cancelled
    /\ (pc = "done" /\ write_errors = 0) => telemetry_buffer = <<>>

C23Step ==
    /\ (tick_count' = tick_count + 1 /\ duration_seconds > 0) => clock < duration_seconds
    /\ pc = "done" => (pc' = "done" /\ tick_count' = tick_count /\ spawn' = spawn)

RECURSIVE Lines(_)
Lines(files) == IF files = <<>> THEN <<>> ELSE Head(files) \o Lines(Tail(files))

\* Every snapshot appended so far, written or still buffered.
Snapshots == Lines(telemetry_files) \o telemetry_buffer

C24Step ==
    write_errors' = 0 =>
        \/ Snapshots' = Snapshots
        \/ /\ IsProcessStep
           /\ Snapshots' = Append(Snapshots, [tick |-> tick_count, id |-> roster[idx].id])
           /\ telemetry_files' = telemetry_files

C24State ==
    write_errors = 0 =>
        /\ \A i, j \in DOMAIN Snapshots : i # j => Snapshots[i] # Snapshots[j]
        /\ pc = "done" => telemetry_buffer = <<>>

\* C24: as long as no file write fails, the lines of the telemetry files
\* followed by the buffer are the snapshots appended so far, each once and
\* in the order appended, whichever of the ticks, the flush tasks and the
\* shutdown flush take a step; and the buffer is empty once shutdown has
\* completed.
C24_TelemetryWrittenOnce == []C24State /\ [][C24Step]_vars

\* C24 witness: shutdown has completed after a flush task wrote a file
\* during the run and the shutdown flush wrote another, while a second
\* flush task had not had its turn.
C24_Witness ==
    /\ pc = "done"
    /\ write_errors = 0
    /\ Len(telemetry_files) >= 2
    /\ flush_tasks > 0
    /\ telemetry_buffer = <<>>

-----------------------------------------------------------------------------
(* Geometry *)

\* C25: for every heading h of [0, 360) and every d of (-180, 180],
\* heading_difference(h, (h + d) mod 360) is d; the result lies in
\* (-180, 180] and is never -180.
C25_HeadingDifferenceInvertsAddition ==
    \A i \in DOMAIN kin :
        /\ kin[i].output = kin[i].input.d
        /\ kin[i].output > -1800
        /\ kin[i].output <= 1800

-----------------------------------------------------------------------------
(* Persistence of the threshold tags *)

\* C26: a process_aircraft step that fires a threshold and whose database
\* writes succeed leaves the aircraft's last_event_fired as the tags that
\* were there followed by the new tag, for TOUCHDOWN as for HANDOFF_READY
\* and ENTERED_ENTRY_ZONE.
C26_FiredTagPersisted ==
    [][(IsProcessStep /\ fired'[idx].tag \in ThresholdTags /\ failures' = failures) =>
          LET id == roster[idx].id
          IN  rows'[id].last_event_fired
                 = Some(Append(LastEventSeq(rows[id]), fired'[idx].tag))]_vars

\* C27: at the end of every tick an event row for threshold T of aircraft a
\* exists only if T is in a's persisted last_event_fired, failed writes
\* included.
C27_EmissionAtomicWithPersistence ==
    pc = "sleep" =>
        \A a \in Aircraft : \A T \in ThresholdTags :
            EventCount(EventTypeOf(T), a) > 0 => T \in TagSet(rows[a])

IsPrefix(s, t) == Len(s) <= Len(t) /\ SubSeq(t, 1, Len(s)) = s

\* C28: every step of the engine, of the SpawnListener, of an external
\* controller and every restart leaves each aircraft's last_event_fired as
\* it was or with tags added after those it held: no tag is removed or
\* rewritten.
C28_TagsMonotone ==
    [][\A a \in Aircraft :
          /\ TagSet(rows[a]) \subseteq TagSet(rows'[a])
          /\ IsPrefix(LastEventSeq(rows[a]), LastEventSeq(rows'[a]))]_vars

\* C28 witness: an aircraft holds two tags, the second added by a later
\* tick after the first, and an aircraft.created message for it has been
\* handled since it was first assigned.
C28_Witness ==
    \E a \in Aircraft :
        /\ LastEventSeq(rows[a]) = <<EVENT_ENTERED_ENTRY_ZONE, EVENT_HANDOFF_READY>>
        /\ msgs = MaxMessages
        /\ \A b \in Aircraft \ {a} : rows[b].controller = "DISPATCHER"

-----------------------------------------------------------------------------
(* Ownership and frame of the engine's writes *)

\* C29: a process_aircraft step for a row whose controller is no longer
\* ENGINE, an external controller having taken it after the roster was
\* fetched, writes neither position nor phase nor last_event_fired of that
\* row.
C29_EngineWritesOwnedRowsOnly ==
    [][(IsProcessStep /\ rows[roster[idx].id].controller # "ENGINE") =>
          LET id == roster[idx].id
          IN  /\ rows'[id].position = rows[id].position
              /\ rows'[id].phase = rows[id].phase
              /\ rows'[id].last_event_fired = rows[id].last_event_fired]_vars

FrameColumns ==
    {"id", "created_at", "flight_type", "status", "controller",
     "target_speed_kts", "target_heading_deg", "target_altitude_ft"}

-----------------------------------------------------------------------------
\* C31: when process_aircraft fails with a per-aircraft logic error (a row
\* without a position, a last_event_fired the threshold chain cannot read),
\* the step leaves the aircraft's row, the events table, the bus and the
\* telemetry buffer as they were, and for the rest of the tick the row
\* still is the copy the roster fetch returned and no message on the bus
\* is about it.
C31State ==
    pc = "process" =>
        \A i \in DOMAIN fired :
            fired[i].tag = "ERROR" =>
                /\ rows[fired[i].id] = roster[i]
                /\ \A k \in DOMAIN bus : bus[k].id # fired[i].id

C31Step ==
    IsProcessStep /\ fired'[Len(fired')].tag = "ERROR" =>
        /\ rows' = rows
        /\ events' = events
        /\ bus' = bus
        /\ telemetry_buffer' = telemetry_buffer

C31_FailedAircraftUntouched == []C31State /\ [][C31Step]_vars

\* Both kinds of failure in one tick, next to each other in the roster.
C31_Witness ==
    /\ pc = "process"
    /\ \E i, j \in DOMAIN fired :
         /\ fired[i].tag = "ERROR" /\ roster[i].position = NullPosition
         /\ fired[j].tag = "ERROR" /\ roster[j].position # NullPosition
         /\ roster[j].last_event_fired = None

-----------------------------------------------------------------------------
\* C32: a message that is not an aircraft.created message of an arrival (a
\* non-arrival, another type, a payload that does not decode) changes no
\* aircraft row and appends no event row, and the listener stays in its
\* loop: a later arrival message is assigned.
NotAnArrival(m) ==
    \/ m.json # "object"
    \/ m.type # "aircraft.created"
    \/ m.flight_type # "ARRIVAL"

C32State ==
    inbox # <<>> /\ NotAnArrival(inbox[Len(inbox)]) => spawn = Idle

C32Step ==
    Len(inbox') = Len(inbox) + 1 =>
        LET m == inbox'[Len(inbox')]
        IN  IF NotAnArrival(m)
            THEN /\ rows' = rows
                 /\ events' = events
                 /\ spawn' = Idle
            ELSE \/ failures' = failures + 1
                 \/ /\ rows'[m.id].controller = "ENGINE"
                    /\ spawn' = [pc |-> "callback", id |-> m.id]

C32_NonArrivalsDropped == []C32State /\ [][C32Step]_vars

\* The three kinds of dropped message are followed by an arrival that is
\* assigned and logged.
C32_Witness ==
    /\ Len(inbox) = 2
    /\ NotAnArrival(inbox[1])
    /\ ~NotAnArrival(inbox[2])
    /\ rows[inbox[2].id].controller = "ENGINE"
    /\ EventCount("aircraft.engine_assigned", inbox[2].id) = 1

-----------------------------------------------------------------------------
\* C33: within a tick the work is done one roster entry after the other: a
\* process_aircraft step writes the row, appends the events and issues the
\* publishes of roster[idx] and of no other aircraft, the publishes of a
\* tick are in roster order, and engine.state_snapshot is published in the
\* step that ends the tick, after every roster entry has had its turn.
RosterPos(id) == CHOOSE i \in DOMAIN roster : roster[i].id = id

C33State ==
    pc = "process" =>
        /\ \A k \in DOMAIN bus :
              /\ bus[k].type # "engine.state_snapshot"
              /\ bus[k].id \in RosterIds
              /\ RosterPos(bus[k].id) < idx
        /\ \A k, l \in DOMAIN bus :
              k < l => RosterPos(bus[k].id) <= RosterPos(bus[l].id)

C33Step ==
    /\ IsProcessStep =>
          /\ \A b \in Aircraft \ {roster[idx].id} : rows'[b] = rows[b]
          /\ IsPrefix(events, events')
          /\ \A k \in (Len(events) + 1)..Len(events') :
                events'[k].aircraft_id = roster[idx].id
          /\ IsPrefix(bus, bus')
          /\ \A k \in (Len(bus) + 1)..Len(bus') : bus'[k].id = roster[idx].id
          /\ idx' = idx + 1
    /\ (bus' # bus /\ Published(bus', "engine.state_snapshot") > 0) =>
          /\ pc = "process"
          /\ Len(fired) = Len(roster)
          /\ \A i \in DOMAIN roster : fired[i].id = roster[i].id
          /\ pc' = "sleep"

C33_SerializedInRosterOrder == []C33State /\ [][C33Step]_vars

\* Tick 10 with two aircraft: both have published, in roster order, and the
\* snapshot is the next thing the tick does.
C33_Witness ==
    /\ pc = "process"
    /\ snapshot_due(tick_count)
    /\ Len(roster) = 2
    /\ idx = 3
    /\ \E k, l \in DOMAIN bus :
         k < l /\ bus[k].id = roster[1].id /\ bus[l].id = roster[2].id

-----------------------------------------------------------------------------
\* C34: the loop of run() neither queues nor bursts ticks: tick_count goes
\* up by one at a time and only when no tick is in progress, a tick starts
\* only with such an increment, every loop iteration lasts at least the
\* interval DT and at most as long as its tick when the tick overran (the
\* sleep is then zero), so that the ticks run never outnumber the intervals
\* elapsed, however late the loop is.
C34State ==
    /\ pc = "process" => (tick_count - 1) * DT <= clock
    /\ pc # "process" => tick_count * DT <= clock

C34Step ==
    /\ tick_count' # tick_count =>
          /\ tick_count' = tick_count + 1
          /\ pc = "sleep"
          /\ roster = <<>>
    /\ (pc # "process" /\ pc' = "process") => tick_count' = tick_count + 1
    /\ clock' # clock =>
          /\ TickEnds
          /\ clock' - clock >= DT
          /\ clock' - clock <= Max(DT, max_tick_seconds)

C34_NoQueuedOrBurstTicks == []C34State /\ [][C34Step]_vars

\* The first tick overran the interval, and the second tick is the next
\* thing that ran: two ticks in more than two seconds.
C34_Witness ==
    /\ pc = "process"
    /\ tick_count = 2
    /\ clock = 2 * DT
    /\ max_tick_seconds > DT

-----------------------------------------------------------------------------
\* C35: shutdown drains the work in progress: the step in which the
\* listener returns while an aircraft.created message is being handled
\* (the row is assigned, the callback pending) also appends the message's
\* ENGINE_ASSIGNED event row, and the loop of run() is left only between
\* two ticks, with no roster entry waiting.
C35_ShutdownDrains ==
    [][(spawn # Cancelled /\ spawn' = Cancelled) =>
          /\ spawn.pc = "callback" =>
                \E k \in DOMAIN events' :
                    /\ k > Len(events)
                    /\ events'[k] = EventRow("aircraft.engine_assigned", spawn.id)
          /\ pc = "sleep"
          /\ roster = <<>>]_vars

-----------------------------------------------------------------------------
\* C36: in one kinematics step the altitude changes by at most 1800 fpm
\* either way when the distance is below 20 NM or the step asserts approach
\* (it follows the glideslope), and otherwise by at most 2500 fpm up and
\* 3000 fpm down; vertical_speed_fpm is the applied change per minute; the
\* altitude moves towards its target and not beyond it, and is held where
\* there is neither a target nor a glideslope to follow.
C36_VerticalRateCaps ==
    \A i \in DOMAIN kin :
        LET in == kin[i].input
            out == kin[i].output
            delta == out.altitude_ft - in.altitude_ft
            on_glideslope == in.target_altitude_ft = None /\ in.distance_nm < 30 * DistScale
            approach == in.distance_nm < 20 * DistScale \/ on_glideslope
            held == in.target_altitude_ft = None /\ ~on_glideslope
            goal == IF in.target_altitude_ft # None THEN Get(in.target_altitude_ft)
                    ELSE calculate_glideslope_altitude(in.distance_nm)
        IN  /\ approach => Abs(delta) * 60 <= H_DOT_DESCENT_MAX_APPROACH * in.dt
            /\ ~approach => /\ delta * 60 <= H_DOT_CLIMB_MAX * in.dt
                            /\ -delta * 60 <= H_DOT_DESCENT_MAX * in.dt
            /\ out.vertical_speed_fpm * in.dt = delta * 60
            /\ held => delta = 0
            /\ ~held => /\ in.altitude_ft <= goal => (delta >= 0 /\ out.altitude_ft <= goal)
                        /\ in.altitude_ft >= goal => (delta <= 0 /\ out.altitude_ft >= goal)

\* A long descent 15 NM out held to 1800 fpm, the same descent 25 NM out at
\* more than that, and a target nearer than one tick's change reached.
C36_Witness ==
    \E i, j \in DOMAIN kin :
        /\ kin[i].input.distance_nm = 15 * DistScale
        /\ kin[i].input.target_altitude_ft = Some(0)
        /\ kin[i].output.vertical_speed_fpm = -H_DOT_DESCENT_MAX_APPROACH
        /\ kin[j].input.distance_nm = 25 * DistScale
        /\ kin[j].input.target_altitude_ft = Some(3020)
        /\ kin[j].input.altitude_ft = 3000
        /\ kin[j].output.altitude_ft = 3020

-----------------------------------------------------------------------------
\* C37: an aircraft without an altitude target inside 30 NM has, in every
\* step, a vertical_speed_fpm between -1800 and 0 (it never climbs while
\* it tracks the glideslope h*(D)), and its altitude closes in on h*(D):
\* a step that starts more than 100 ft from h*(D) ends nearer to it, and a
\* step that starts within 100 ft ends within 100 ft.
C37_GlideslopeNeverClimbs ==
    \A i \in DOMAIN kin :
        LET in == kin[i].input
            out == kin[i].output
            goal == calculate_glideslope_altitude(in.distance_nm)
            before == Abs(in.altitude_ft - goal)
            after == Abs(out.altitude_ft - goal)
        IN  (in.target_altitude_ft = None /\ in.distance_nm < 30 * DistScale) =>
                /\ out.vertical_speed_fpm >= -H_DOT_DESCENT_MAX_APPROACH
                /\ out.vertical_speed_fpm <= 0
                /\ IF before > 100 THEN after < before ELSE after <= 100

-----------------------------------------------------------------------------
\* C38: update_heading turns the shorter way round (either way when the
\* target is exactly opposite) by the smaller of the remaining arc and the
\* turn rate times dt: the result lies on the shorter arc from the heading
\* to the target, a call at the target returns the target, and above the
\* 1 m/s guard every call away from the target shortens the remaining arc
\* by that amount, so that repeated calls reach the target and stay.
C38_ShortestArcNoOvershoot ==
    \A i \in DOMAIN kin :
        LET c == kin[i].input.current
            t == kin[i].input.target
            new == kin[i].output
            right == (t - c) % 3600
            left == (c - t) % 3600
            step == calculate_max_turn_rate(kin[i].input.speed_kts) * kin[i].input.dt
            turned_right == new = (c + Min(right, step)) % 3600
            turned_left == new = (c - Min(left, step)) % 3600
        IN  /\ right < left => turned_right
            /\ left < right => turned_left
            /\ left = right => (turned_left \/ turned_right)
            /\ Arc(c, new) + Arc(new, t) = Arc(c, t)
            /\ Arc(new, t) = Arc(c, t) - Min(Arc(c, t), step)
            /\ kin[i].input.speed_kts >= 20 => step > 0
            /\ c = t => new = t

\* From 350 towards 10 the heading went up through north, reached 10 and
\* the next call left it there.
C38_Witness ==
    /\ Len(kin) >= 3
    /\ kin[1].input.current = 3500
    /\ kin[1].input.target = 100
    /\ kin[1].output > 3500
    /\ \E i \in DOMAIN kin : kin[i].output < 100
    /\ kin[Len(kin)].input.current = 100
    /\ kin[Len(kin)].output = 100

-----------------------------------------------------------------------------
\* C39: the phase a non-touchdown tick stores is given by the table on the
\* distance of the position read and the altitude AGL after the step:
\* FINAL below 500 ft AGL, else APPROACH inside 10 NM, else DESCENT inside
\* 30 NM, else CRUISE, and so never TOUCHDOWN; when the row write fails
\* nothing of the row changes.
PhaseTable(distance_nm, altitude_agl) ==
    CASE altitude_agl < 500 -> "FINAL"
      [] altitude_agl >= 500 /\ distance_nm < 10 * DistScale -> "APPROACH"
      [] altitude_agl >= 500 /\ distance_nm >= 10 * DistScale
                             /\ distance_nm < 30 * DistScale -> "DESCENT"
      [] altitude_agl >= 500 /\ distance_nm >= 30 * DistScale -> "CRUISE"

C39Step ==
    (IsProcessStep /\ fired'[idx].tag \notin {"ERROR", EVENT_TOUCHDOWN}) =>
        LET id == roster[idx].id
            stored == rows'[id]
        IN  \/ /\ failures' > failures
               /\ stored = rows[id]
            \/ /\ stored.phase
                    = PhaseTable(distance_to_airport(roster[idx].position),
                                 stored.position.altitude_ft - CYYZ_ELEVATION_FT)
               /\ stored.phase # "TOUCHDOWN"

C39_PhaseDecisionTable == [][C39Step]_vars

\* The four phases stored in the table, two of them on a boundary: 10.0 NM
\* at 500 ft AGL is DESCENT, 30.0 NM is CRUISE.
C39_Witness ==
    /\ pc = "process"
    /\ Len(fired) = 2
    /\ \E i, j \in DOMAIN roster :
         /\ roster[i].position.x = 10 * DistScale
         /\ roster[i].position.altitude_ft = CYYZ_ELEVATION_FT + 500
         /\ rows[roster[i].id].phase = "DESCENT"
         /\ roster[j].position.x = 30 * DistScale
         /\ rows[roster[j].id].phase = "CRUISE"

-----------------------------------------------------------------------------
\* C40: in each tick the phase and the HANDOFF_READY and ENTERED_ENTRY_ZONE
\* thresholds are decided on the distance of the position read from the
\* store, the TOUCHDOWN threshold on the altitude after the step; and an
\* aircraft whose stored position crossed a distance threshold in the
\* previous tick fires that threshold in this one.
ProcessedLastTick(e) ==
    \E i \in DOMAIN telemetry_buffer :
        telemetry_buffer[i] = [tick |-> tick_count - 1, id |-> e.id]

\* The distance the previous tick read, for a row the previous tick wrote.
PreviousDistance(e) ==
    distance_to_airport([e.position EXCEPT !.x = @ + e.position.ground_speed * DT])

FirstCrossed(e, threshold) ==
    /\ failures = 0
    /\ ProcessedLastTick(e)
    /\ PreviousDistance(e) > threshold
    /\ distance_to_airport(e.position) <= threshold

C40Step ==
    IsProcessStep =>
        LET e == roster[idx]
            tag == fired'[idx].tag
            pre == distance_to_airport(e.position)
            post == kinematics_update_aircraft_state(e, DT).position
            stored == rows'[e.id]
        IN  /\ tag = EVENT_HANDOFF_READY => pre <= HANDOFF_READY_THRESHOLD_NM
            /\ tag = EVENT_ENTERED_ENTRY_ZONE => pre <= ENTRY_ZONE_THRESHOLD_NM
            /\ tag = EVENT_TOUCHDOWN
                 => post.altitude_ft - CYYZ_ELEVATION_FT < TOUCHDOWN_ALTITUDE_FT
            /\ (tag \notin {"ERROR", EVENT_TOUCHDOWN} /\ stored # rows[e.id])
                 => /\ stored.position = post
                    /\ stored.phase = determine_phase(pre, post.altitude_ft - CYYZ_ELEVATION_FT)
            /\ FirstCrossed(e, ENTRY_ZONE_THRESHOLD_NM) => tag = EVENT_ENTERED_ENTRY_ZONE
            /\ FirstCrossed(e, HANDOFF_READY_THRESHOLD_NM) => tag = EVENT_HANDOFF_READY

C40_ThresholdsOnDistanceRead == [][C40Step]_vars

====
